---- MODULE Spec2Model ----
(***************************************************************************)
(* Detection-and-decision pipeline of the fact-check bot (src/bot.py,      *)
(* src/utils/ai_client.py): the two sliding-window rate limiters, the      *)
(* provider fallback chain, the per-community pattern files and the alert  *)
(* decision, as a state machine over the coroutines that discord.py        *)
(* schedules for on_message.                                               *)
(*                                                                         *)
(* Time is counted in whole minutes.  A coroutine runs without             *)
(* interruption from one await to the next (asyncio, one thread); the      *)
(* variable "running" names the handler that holds the event loop inside   *)
(* a section that the model splits into several steps.                     *)
(***************************************************************************)
EXTENDS Integers, Sequences, FiniteSets, TLC

VARIABLES
    now,                \* datetime.utcnow(), in minutes
    rate_limits,        \* FactCheckBot.rate_limits: dict str(user_id) -> list of iso timestamps
    auto_check_limits,  \* FactCheckBot.auto_check_limits: the same for automatic scans
    configured,         \* AIClient: the providers whose client is not None
    models,             \* per AIClient instance and provider: the model its requests name
    files,              \* data/*.json pattern files: dict file name -> document
    running,            \* handler holding the event loop (0: the loop is free)
    pc,                 \* per handler: where its coroutine stands
    msg,                \* per handler: the message being handled
    gate,               \* per handler: outcome of the rate-limit check of its message
    context,            \* per handler: local "context" of handle_automatic_misinformation_check
    request,            \* per handler: the AIClient request in progress and the next provider
    calls,              \* per handler: provider invocations made for its message, in order
    analysis,           \* per handler: local "analysis" ({} is None, {d} is the dict d)
    pattern_info,       \* per handler: local "pattern_info"
    reply,              \* per handler: the alert sent with message.reply ({} when none)
    admit_log,          \* history: per limiter and user, the admissions still inside the window
    last_admit,         \* history: per limiter and user, time of the last admission (-1: never)
    was_rejected,       \* history: per limiter and user, whether a check was ever rejected
    faults,             \* history: per handler, the failures met while handling its message
    session,            \* FactChecker.session of the ExposeCog (0 is None): the handler whose
                        \* check_statement opened the ClientSession the field refers to
    closed,             \* the handlers whose latest ClientSession has been closed
    tasks               \* per handler and source: the check_source task of its check_statement

vars == <<now, rate_limits, auto_check_limits, configured, models, files, running, pc,
          msg, gate, context, request, calls, analysis, pattern_info, reply,
          admit_log, last_admit, was_rejected, faults, session, closed, tasks>>

Admissions == <<admit_log, last_admit, was_rejected>>

FactCheckerState == <<session, closed, tasks>>

-----------------------------------------------------------------------------
(* Bounds of the model *)

MaxTime == 6
RaceTime == 1
NumUsers == 2
NumHandlers == 2
NumSources == 2

(* Program constants *)

MAX_COMMANDS_WINDOW == 5
COMMAND_WINDOW_MINUTES == 1
AUTO_DETECT_RATE_LIMIT == 2
AUTO_WINDOW_MINUTES == 5
AUTO_DETECT_MIN_MESSAGE_LENGTH == 20
AUTO_DETECT_TRUTHINESS_THRESHOLD == 50
AUTO_DETECT_CONFIDENCE_THRESHOLD == 60
RECURRING_THRESHOLD == 2
MAX_KEY_PHRASES == 5
MAX_EXAMPLES == 5
EXAMPLE_CHARS == 100
MAX_EVENTS == 100
MIN_KEYWORD_LENGTH == 3
HASH_MODULUS == 10000

BotUser == 0
Users == 1..NumUsers
Authors == {BotUser} \cup Users
Handlers == 1..NumHandlers
Sources == 1..NumSources
NoGuild == 0

-----------------------------------------------------------------------------
(* Python values *)

\* dict.get(key, default)
DictGet(d, k, default) == IF k \in DOMAIN d THEN d[k] ELSE default

\* d[key] = value
DictSet(d, k, v) == [x \in DOMAIN d \cup {k} |-> IF x = k THEN v ELSE d[x]]

EmptyDict == [x \in {} |-> 0]

\* str(user_id)
StrOf(n) == ToString(n)

\* datetime.isoformat(): the text form of a time, as <<hour, minute>>
Isoformat(t) == <<t \div 60, t % 60>>

\* datetime.fromisoformat(): the time a text form denotes
FromIsoformat(s) == s[1] * 60 + s[2]

RECURSIVE SumSeq(_)
SumSeq(s) == IF s = <<>> THEN 0 ELSE Head(s) + SumSeq(Tail(s))

-----------------------------------------------------------------------------
(* Message text: a sequence of whitespace-separated words *)

Lower(w) == IF w = "Vaccines" THEN "vaccines" ELSE w

CommandWords == {"!help", "!expose", "!truthiness", "!misinfotrends", "!setmodel"}

\* The commands whose cog is modelled by an action of its own
CogCommands == {"!expose", "!truthiness", "!misinfotrends", "!setmodel"}
UrlWords == {"http://x.io"}
QuestionMarkWords == {"autism?"}
question_words == {"what", "how", "when", "where", "why", "who", "which", "can", "could",
                   "would", "should", "is", "are", "do", "does", "did"}
stop_words == {"the", "a", "an", "and", "or", "but", "in", "on", "at", "to", "for", "of",
               "with", "by", "is", "are", "was", "were"}

\* len(message.content.strip()): the words and the single blanks between them
CharLen(content) ==
    IF content = <<>> THEN 0
    ELSE SumSeq([i \in 1..Len(content) |-> Len(content[i])]) + (Len(content) - 1)

\* message.content.startswith(COMMAND_PREFIX)
IsCommand(content) == content # <<>> /\ content[1] \in CommandWords

\* 'http' in message.content.lower()
ContainsUrl(content) == \E i \in 1..Len(content) : content[i] \in UrlWords

\* first_word in question_words or message.content.strip().endswith('?')
IsQuestion(content) ==
    \/ Lower(content[1]) \in question_words
    \/ content[Len(content)] \in QuestionMarkWords

-----------------------------------------------------------------------------
(* Sliding-window rate limiting *)

\* [ts for ts in limits if now - datetime.fromisoformat(ts) < timedelta(minutes=window)]
FilterWindowKeepAll(limits, t, window) == limits

FilterWindow(limits, t, window) ==
    LET Fresh(ts) == t - FromIsoformat(ts) < window
    IN  SelectSeq(limits, Fresh)

\* if len(user_limits) >= max_events: the check is rejected
LimitExceededOffByOne(limits, max_events) == Len(limits) > max_events

LimitExceeded(limits, max_events) == Len(limits) >= max_events

\* getattr(self, 'auto_check_limits', {}): the store the automatic scan reads
AutoLimitsSharedWithCommands == rate_limits

AutoLimitsStore == auto_check_limits

\* The window one check works on and what it leaves in the store:
\* <<admitted, new store>>
CheckWindowNotStored(store, user_id, t, window, max_events) ==
    LET user_limits == FilterWindow(DictGet(store, StrOf(user_id), <<>>), t, window)
    IN  IF LimitExceeded(user_limits, max_events)
        THEN <<FALSE, store>>
        ELSE <<TRUE, store>>

\* The check, were the timestamp appended before the ceiling is tested
CheckWindowAppendsFirst(store, user_id, t, window, max_events) ==
    LET user_limits == FilterWindow(DictGet(store, StrOf(user_id), <<>>), t, window)
        appended == DictSet(store, StrOf(user_id), Append(user_limits, Isoformat(t)))
    IN  IF LimitExceeded(user_limits, max_events)
        THEN <<FALSE, appended>>
        ELSE <<TRUE, appended>>

CheckWindow(store, user_id, t, window, max_events) ==
    LET user_limits == FilterWindow(DictGet(store, StrOf(user_id), <<>>), t, window)
    IN  IF LimitExceeded(user_limits, max_events)
        THEN <<FALSE, store>>
        ELSE <<TRUE, DictSet(store, StrOf(user_id), Append(user_limits, Isoformat(t)))>>

-----------------------------------------------------------------------------
(* History of admissions, kept beside the program's state *)

Limiters == {"command", "auto"}

WindowOf(lim) == IF lim = "command" THEN COMMAND_WINDOW_MINUTES ELSE AUTO_WINDOW_MINUTES

MaxEventsOf(lim) == IF lim = "command" THEN MAX_COMMANDS_WINDOW ELSE AUTO_DETECT_RATE_LIMIT

Prune(log, t) ==
    [lim \in Limiters |->
        [u \in Authors |->
            LET Inside(ts) == t - ts < WindowOf(lim)
            IN  SelectSeq(log[lim][u], Inside)]]

NoGate == [result |-> "none", limiter |-> "none", at |-> 0]

Record(lim, u, admitted) ==
    /\ admit_log' = IF admitted
                    THEN [admit_log EXCEPT ![lim][u] = Append(@, now)]
                    ELSE admit_log
    /\ last_admit' = IF admitted THEN [last_admit EXCEPT ![lim][u] = now] ELSE last_admit
    /\ was_rejected' = IF admitted THEN was_rejected
                       ELSE [was_rejected EXCEPT ![lim][u] = TRUE]

-----------------------------------------------------------------------------
(* Messages *)

Message(author, guild, reply_mention, content) ==
    [author |-> author, guild |-> guild, reply_mention |-> reply_mention,
     content |-> content]

NoMessage == Message(BotUser, NoGuild, FALSE, <<>>)

NoRequest ==
    [kind |-> "none", next |-> 0, done |-> FALSE, response |-> {}, behaviour |-> EmptyDict]

NoPatternInfo == EmptyDict

\* A check_source task: where it stands, the session its request goes
\* through (0: none yet) and how the request ended
NoTask == [state |-> "none", via |-> 0, outcome |-> ""]

ScheduledTask == [state |-> "scheduled", via |-> 0, outcome |-> ""]

Locals == <<context, request, calls, analysis, pattern_info, reply>>

\* The AIClient instances: FactCheckBot.ai_client, ExposeCog.ai_client and
\* TruthinessCog.ai_client
Clients == {"bot", "expose", "truthiness"}

\* AIClient.__init__: primary_model, openai_model, gemini_model
DefaultModels ==
    [p \in {"PawanOsman", "OpenAI", "Gemini"} |->
        IF p = "PawanOsman" THEN "gpt-3.5-turbo"
        ELSE IF p = "OpenAI" THEN "gpt-4o"
        ELSE "gemini-1.5-flash"]

-----------------------------------------------------------------------------
(* Initial state: FactCheckBot.__init__ and setup_hook with no data files *)

InitWith(providers) ==
    /\ now = 0
    /\ rate_limits = EmptyDict
    /\ auto_check_limits = EmptyDict
    /\ configured = providers
    /\ files = EmptyDict
    /\ running = 0
    /\ pc = [h \in Handlers |-> "done"]
    /\ msg = [h \in Handlers |-> NoMessage]
    /\ gate = [h \in Handlers |-> NoGate]
    /\ context = [h \in Handlers |-> <<>>]
    /\ request = [h \in Handlers |-> NoRequest]
    /\ calls = [h \in Handlers |-> <<>>]
    /\ analysis = [h \in Handlers |-> {}]
    /\ pattern_info = [h \in Handlers |-> NoPatternInfo]
    /\ reply = [h \in Handlers |-> {}]
    /\ admit_log = [lim \in Limiters |-> [u \in Authors |-> <<>>]]
    /\ last_admit = [lim \in Limiters |-> [u \in Authors |-> -1]]
    /\ was_rejected = [lim \in Limiters |-> [u \in Authors |-> FALSE]]
    /\ faults = [h \in Handlers |-> {}]
    /\ models = [c \in Clients |-> DefaultModels]
    /\ session = 0
    /\ closed = {}
    /\ tasks = [h \in Handlers |-> [i \in Sources |-> NoTask]]

-----------------------------------------------------------------------------
(* The clock *)

Tick(limit) ==
    /\ running = 0
    /\ now < limit
    /\ now' = now + 1
    /\ admit_log' = Prune(admit_log, now + 1)
    /\ UNCHANGED <<rate_limits, auto_check_limits, configured, models, files, running, pc, msg,
                   gate, Locals, last_admit, was_rejected, faults>>
    /\ UNCHANGED FactCheckerState

-----------------------------------------------------------------------------
(* The data files *)

\* A file json.load cannot read: open(file, 'w') truncated it and json.dump
\* did not finish
Corrupt == [corrupt |-> TRUE]

Unreadable(store, file) == file \in DOMAIN store /\ store[file] = Corrupt

\* with open(log_file, 'w') as f: json.dump(data, f): the write succeeds, or
\* open raises and the file is as before, or the write stops after open
\* has truncated the file
SaveOutcomes == {"ok", "unopened", "truncated"}

WriteBack(old, new, saved) ==
    IF saved = "ok" THEN new
    ELSE IF saved = "unopened" THEN old
    ELSE [f \in DOMAIN new |->
             IF f \notin DOMAIN old \/ old[f] # new[f] THEN Corrupt ELSE new[f]]

\* The file save_rate_limits writes
RateLimitsFile == "data/rate_limits.json"

-----------------------------------------------------------------------------
(* on_message up to its first await *)

\* The checks of on_message and handle_automatic_misinformation_check that end
\* the handling of a plain message before the rate limiter is consulted.
AutoSkipped(content) ==
    \/ content = <<>>
    \/ ~ (CharLen(content) > AUTO_DETECT_MIN_MESSAGE_LENGTH)
    \/ CharLen(content) < AUTO_DETECT_MIN_MESSAGE_LENGTH
    \/ ContainsUrl(content)
    \/ IsQuestion(content)

\* on_message; saved is how save_rate_limits fares when check_rate_limit
\* admits: the exception of a failed write is logged and the check returns True
OnMessageSave(h, m, saved) ==
    /\ running = 0
    /\ pc[h] = "done"
    /\ msg' = [msg EXCEPT ![h] = m]
    /\ context' = [context EXCEPT ![h] = <<>>]
    /\ request' = [request EXCEPT ![h] = NoRequest]
    /\ calls' = [calls EXCEPT ![h] = <<>>]
    /\ analysis' = [analysis EXCEPT ![h] = {}]
    /\ pattern_info' = [pattern_info EXCEPT ![h] = NoPatternInfo]
    /\ reply' = [reply EXCEPT ![h] = {}]
    /\ IF m.author = BotUser
       THEN /\ pc' = [pc EXCEPT ![h] = "done"]
            /\ gate' = [gate EXCEPT ![h] = NoGate]
            /\ faults' = [faults EXCEPT ![h] = {}]
            /\ UNCHANGED <<rate_limits, auto_check_limits, files, Admissions>>
       ELSE IF m.reply_mention \/ IsCommand(m.content)
       THEN LET r == CheckWindow(rate_limits, m.author, now,
                                 COMMAND_WINDOW_MINUTES, MAX_COMMANDS_WINDOW)
            IN  /\ rate_limits' = r[2]
                /\ files' = IF r[1]
                             THEN WriteBack(files, DictSet(files, RateLimitsFile, r[2]), saved)
                             ELSE files
                /\ faults' = [faults EXCEPT ![h] =
                                 IF r[1] /\ saved # "ok" THEN {"save"} ELSE {}]
                /\ gate' = [gate EXCEPT ![h] =
                              [result |-> IF r[1] THEN "admitted" ELSE "rejected",
                               limiter |-> "command", at |-> now]]
                /\ pc' = [pc EXCEPT ![h] =
                              IF ~ r[1] THEN "send_notice"
                              ELSE IF m.reply_mention THEN "reply_fact_check"
                              ELSE "process_commands"]
                /\ Record("command", m.author, r[1])
                /\ UNCHANGED auto_check_limits
       ELSE IF AutoSkipped(m.content)
       THEN /\ pc' = [pc EXCEPT ![h] = "done"]
            /\ gate' = [gate EXCEPT ![h] = NoGate]
            /\ faults' = [faults EXCEPT ![h] = {}]
            /\ UNCHANGED <<rate_limits, auto_check_limits, files, Admissions>>
       ELSE LET r == CheckWindow(AutoLimitsStore, m.author, now,
                                 AUTO_WINDOW_MINUTES, AUTO_DETECT_RATE_LIMIT)
            IN  /\ auto_check_limits' = IF r[1] THEN r[2] ELSE auto_check_limits
                /\ gate' = [gate EXCEPT ![h] =
                              [result |-> IF r[1] THEN "admitted" ELSE "rejected",
                               limiter |-> "auto", at |-> now]]
                /\ pc' = [pc EXCEPT ![h] = IF r[1] THEN "history" ELSE "done"]
                /\ Record("auto", m.author, r[1])
                /\ faults' = [faults EXCEPT ![h] = {}]
                /\ UNCHANGED <<rate_limits, files>>
    /\ UNCHANGED <<now, configured, models, running>>
    /\ UNCHANGED FactCheckerState

\* on_message when data/rate_limits.json can be written
OnMessage(h, m) == OnMessageSave(h, m, "ok")

\* await message.channel.send(...) after a rejected command or mention
SendNotice(h) ==
    /\ running = 0
    /\ pc[h] = "send_notice"
    /\ pc' = [pc EXCEPT ![h] = "done"]
    /\ UNCHANGED <<now, rate_limits, auto_check_limits, configured, models, files, running, msg,
                   gate, Locals, Admissions, faults>>
    /\ UNCHANGED FactCheckerState

\* await self.process_commands(message): the command's cog runs; it touches
\* none of the limiter or pattern state
ProcessCommands(h) ==
    /\ running = 0
    /\ pc[h] = "process_commands"
    /\ msg[h].content[1] \notin CogCommands
    /\ pc' = [pc EXCEPT ![h] = "done"]
    /\ UNCHANGED <<now, rate_limits, auto_check_limits, configured, models, files, running, msg,
                   gate, Locals, Admissions, faults>>
    /\ UNCHANGED FactCheckerState

-----------------------------------------------------------------------------
(* The requests and the AIClient instance each goes through *)

\* The requests made for an automatic scan
ScanKinds == {"community", "truthiness"}

\* The AIClient instance a request goes through: the scan and the mention
\* reply use FactCheckBot.ai_client, the cogs the instance each of them
\* creates in its __init__
ClientOf(kind) ==
    IF kind = "cmd_truthiness" THEN "truthiness"
    ELSE IF kind = "cmd_expose" THEN "expose"
    ELSE "bot"

-----------------------------------------------------------------------------
(* Exceptions inside handle_automatic_misinformation_check *)

\* Where the coroutine goes on when a statement of the try block of
\* handle_automatic_misinformation_check raises
OnExceptionEscapes == "crashed"

\* "except Exception as e: logger.error(...)", then the function returns
OnException == "done"

-----------------------------------------------------------------------------
(* Conversation context *)

MIN_CONTEXT_LENGTH == 10
CONTEXT_CHARS == 200
MAX_CONTEXT == 5

\* text[:n] on a sequence of words: exact when the text has at most n
\* characters, otherwise the longest prefix of whole words within n characters
RECURSIVE Truncate(_, _)
Truncate(content, n) ==
    IF CharLen(content) <= n THEN content
    ELSE Truncate(SubSeq(content, 1, Len(content) - 1), n)

\* context[:n]
Take(s, n) == SubSeq(s, 1, IF Len(s) < n THEN Len(s) ELSE n)

\* What get_conversation_context hands back when the fetch raises, were the
\* exception left to propagate: nothing
ContextFetchErrorPropagates == {}

\* "except: return []"
ContextOnFetchError == {<<>>}

\* get_conversation_context: history is what channel.history yields, in the
\* order it yields it; {} stands for a fetch that raises.  The value is the
\* set of the one list returned, empty when the call raises.
GetConversationContext(fetched) ==
    IF fetched = {} THEN ContextOnFetchError
    ELSE LET history == CHOOSE s \in fetched : TRUE
             Relevant(m) == m.content # <<>> /\ CharLen(m.content) > MIN_CONTEXT_LENGTH
             kept == SelectSeq(history, Relevant)
         IN  {Take([i \in 1..Len(kept) |->
                       [author |-> StrOf(kept[i].author),
                        content |-> Truncate(kept[i].content, CONTEXT_CHARS),
                        timestamp |-> Isoformat(kept[i].created_at)]],
                   MAX_CONTEXT)}

-----------------------------------------------------------------------------
(* Provider fallback: AIClient._make_request_with_fallback *)

ProviderOrderOpenAIFirst == <<"OpenAI", "PawanOsman", "Gemini">>

\* The order of the three try-blocks
ProviderOrder == <<"PawanOsman", "OpenAI", "Gemini">>

Providers == {"PawanOsman", "OpenAI", "Gemini"}

\* What a provider answers: the call raises, or it returns a text
Raises == [error |-> TRUE, fenced |-> FALSE, json |-> FALSE, payload |-> EmptyDict]

Text(fenced, json, payload) ==
    [error |-> FALSE, fenced |-> fenced, json |-> json, payload |-> payload]

\* Gemini branch: strip the markdown fence and cut to the outermost braces
GeminiClean(text) == [text EXCEPT !.fenced = FALSE]

\* json.loads(response): {} when it raises
JsonLoads(text) == IF text.json /\ ~ text.fenced THEN {text.payload} ELSE {}

\* The provider to try after position i, were a failed provider tried again
NextConfiguredRetries(i) ==
    LET later == {j \in (IF i = 0 THEN 1 ELSE i)..Len(ProviderOrder) :
                     ProviderOrder[j] \in configured}
    IN  IF later = {} THEN 0 ELSE CHOOSE j \in later : \A k \in later : j <= k

\* The first configured provider after position i (0: none is left)
NextConfigured(i) ==
    LET later == {j \in (i + 1)..Len(ProviderOrder) : ProviderOrder[j] \in configured}
    IN  IF later = {} THEN 0 ELSE CHOOSE j \in later : \A k \in later : j <= k

NewRequest(kind, behaviour) ==
    [kind |-> kind, next |-> NextConfigured(0), done |-> FALSE, response |-> {},
     behaviour |-> behaviour]

\* Python truth value of an analysis: None and the empty dict are false
Truthy(a) == a # {} /\ a # {EmptyDict}

\* The value of "analysis" after "response = await self._make_request_with_fallback(prompt);
\* if response: return json.loads(response)", None on any exception
ParsedResponse(response) ==
    IF response = {} THEN {}
    ELSE JsonLoads(CHOOSE t \in response : TRUE)

\* await message.channel.history(...) has answered; the coroutine goes on into
\* analyze_with_community_context without a further await
History(h, fetched, behaviour) ==
    /\ running = 0
    /\ pc[h] = "history"
    /\ LET returned == GetConversationContext(fetched)
       IN  IF returned = {}
           THEN /\ pc' = [pc EXCEPT ![h] = OnException]
                /\ faults' = [faults EXCEPT ![h] = @ \cup {"fetch"}]
                /\ UNCHANGED <<context, request, running>>
           ELSE /\ faults' = [faults EXCEPT ![h] =
                                 IF fetched = {} THEN @ \cup {"fetch"} ELSE @]
                /\ context' = [context EXCEPT ![h] = CHOOSE c \in returned : TRUE]
                /\ request' = [request EXCEPT ![h] = NewRequest("community", behaviour)]
                /\ running' = h
                /\ pc' = [pc EXCEPT ![h] = "request"]
    /\ UNCHANGED <<now, rate_limits, auto_check_limits, configured, models, files, msg, gate,
                   calls, analysis, pattern_info, reply, Admissions>>
    /\ UNCHANGED FactCheckerState

\* One try-block of _make_request_with_fallback
CallProvider(h) ==
    /\ running = h
    /\ pc[h] = "request"
    /\ ~ request[h].done
    /\ LET i == request[h].next
           p == ProviderOrder[i]
           answer == request[h].behaviour[p]
       IN  /\ calls' = [calls EXCEPT ![h] =
                           Append(@, [request |-> request[h].kind, provider |-> p,
                                      raised |-> answer.error,
                                      model |-> models[ClientOf(request[h].kind)][p]])]
           /\ request' = [request EXCEPT ![h] =
                 IF answer.error
                 THEN IF NextConfigured(i) = 0
                      THEN [@ EXCEPT !.done = TRUE, !.next = 0, !.response = {}]
                      ELSE [@ EXCEPT !.next = NextConfigured(i)]
                 ELSE [@ EXCEPT !.done = TRUE, !.next = 0,
                                !.response = {IF p = "Gemini" THEN GeminiClean(answer)
                                              ELSE answer}]]
    /\ UNCHANGED <<now, rate_limits, auto_check_limits, configured, models, files, running, pc,
                   msg, gate, context, analysis, pattern_info, reply, Admissions, faults>>
    /\ UNCHANGED FactCheckerState

\* "if not analysis:" after analyze_with_community_context
NeedsFallbackNever(kind, parsed) == FALSE

NeedsFallback(kind, parsed) == kind = "community" /\ ~ Truthy(parsed)

\* The caller of _make_request_with_fallback parses what came back;
\* handle_automatic_misinformation_check falls back to rate_truthiness when
\* analyze_with_community_context gave nothing
FinishRequest(h, behaviour) ==
    /\ running = h
    /\ pc[h] = "request"
    /\ request[h].done
    /\ LET parsed == ParsedResponse(request[h].response)
       IN  /\ analysis' = [analysis EXCEPT ![h] = parsed]
           /\ IF NeedsFallback(request[h].kind, parsed)
              THEN /\ request' = [request EXCEPT ![h] = NewRequest("truthiness", behaviour)]
                   /\ pc' = pc
                   /\ running' = running
              ELSE IF request[h].kind \in ScanKinds
              THEN /\ request' = request
                   /\ pc' = [pc EXCEPT ![h] = "decide"]
                   /\ running' = running
              ELSE IF request[h].kind = "cmd_expose"
              THEN /\ request' = request
                   /\ pc' = [pc EXCEPT ![h] = "check_statement"]
                   /\ running' = running
              ELSE /\ request' = request
                   /\ pc' = [pc EXCEPT ![h] = "send_result"]
                   /\ running' = 0
    /\ UNCHANGED <<now, rate_limits, auto_check_limits, configured, models, files, msg,
                   gate, context, calls, pattern_info, reply, Admissions, faults>>
    /\ UNCHANGED FactCheckerState

-----------------------------------------------------------------------------
(* Requests of the mention reply and of the command cogs *)

\* await self.handle_reply_fact_check(message): fetch_message has answered
\* and the coroutine goes on into self.ai_client.analyze_statement
ReplyFactCheck(h, behaviour) ==
    /\ running = 0
    /\ pc[h] = "reply_fact_check"
    /\ request' = [request EXCEPT ![h] = NewRequest("statement", behaviour)]
    /\ running' = h
    /\ pc' = [pc EXCEPT ![h] = "request"]
    /\ UNCHANGED <<now, rate_limits, auto_check_limits, configured, models, files, msg,
                   gate, context, calls, analysis, pattern_info, reply, Admissions, faults>>
    /\ UNCHANGED FactCheckerState

\* process_commands invokes truthiness_command: the processing notice has
\* been sent and the coroutine goes on into self.ai_client.rate_truthiness
TruthinessCommand(h, behaviour) ==
    /\ running = 0
    /\ pc[h] = "process_commands"
    /\ msg[h].content[1] = "!truthiness"
    /\ request' = [request EXCEPT ![h] = NewRequest("cmd_truthiness", behaviour)]
    /\ running' = h
    /\ pc' = [pc EXCEPT ![h] = "request"]
    /\ UNCHANGED <<now, rate_limits, auto_check_limits, configured, models, files, msg,
                   gate, context, calls, analysis, pattern_info, reply, Admissions, faults>>
    /\ UNCHANGED FactCheckerState

\* process_commands invokes expose_command: the processing notice has been
\* sent and the coroutine goes on into self.ai_client.analyze_statement
ExposeCommand(h, behaviour) ==
    /\ running = 0
    /\ pc[h] = "process_commands"
    /\ msg[h].content[1] = "!expose"
    /\ request' = [request EXCEPT ![h] = NewRequest("cmd_expose", behaviour)]
    /\ running' = h
    /\ pc' = [pc EXCEPT ![h] = "request"]
    /\ UNCHANGED <<now, rate_limits, auto_check_limits, configured, models, files, msg,
                   gate, context, calls, analysis, pattern_info, reply, Admissions, faults>>
    /\ UNCHANGED FactCheckerState

\* expose_command goes on, without leaving the event loop, into
\* self.fact_checker.check_statement: "async with aiohttp.ClientSession() as
\* session" opens a session, "self.session = session" stores it in the field
\* of the one FactChecker of the cog, one check_source task per source is
\* handed to asyncio.gather and the coroutine waits for them
CheckStatement(h) ==
    /\ running = h
    /\ pc[h] = "check_statement"
    /\ session' = h
    /\ closed' = closed \ {h}
    /\ tasks' = [tasks EXCEPT ![h] = [i \in Sources |-> ScheduledTask]]
    /\ pc' = [pc EXCEPT ![h] = "gather"]
    /\ running' = 0
    /\ UNCHANGED <<now, rate_limits, auto_check_limits, configured, models, files, msg,
                   gate, context, request, calls, analysis, pattern_info, reply,
                   Admissions, faults>>

\* The task of one source on reaching "self.session.get(url, ...)": the
\* session is whatever the field holds now; a closed session raises at once
\* ("Session is closed", caught by search_source, which returns None)
StartedTask(s, closed_now) ==
    IF s \in closed_now
    THEN [state |-> "done", via |-> s, outcome |-> "closed"]
    ELSE [state |-> "in_flight", via |-> s, outcome |-> ""]

\* Tasks handed to asyncio.gather that have not run yet: they are in the
\* ready queue of the event loop and run before the loop looks at the
\* network again
TasksWaiting == \E g \in Handlers, i \in Sources : tasks[g][i].state = "scheduled"

\* The tasks of one gather run one after the other, each up to its request:
\* check_source builds the url and search_source reads self.session.  A
\* handler that was ready to run when check_statement suspended has run
\* before them.
SearchSource(h) ==
    /\ running = 0
    /\ pc[h] = "gather"
    /\ \A i \in Sources : tasks[h][i].state = "scheduled"
    /\ tasks' = [tasks EXCEPT ![h] = [i \in Sources |-> StartedTask(session, closed)]]
    /\ UNCHANGED <<now, rate_limits, auto_check_limits, configured, models, files, running,
                   pc, msg, gate, context, request, calls, analysis, pattern_info, reply,
                   Admissions, faults, session, closed>>

\* The request of one source ends: with the response, or with the error of
\* a connection that was closed under it (caught, the source gives None)
SourceAnswers(h, i) ==
    /\ running = 0
    /\ ~ TasksWaiting
    /\ pc[h] = "gather"
    /\ tasks[h][i].state = "in_flight"
    /\ tasks' = [tasks EXCEPT ![h][i] =
                    [state |-> "done", via |-> @.via,
                     outcome |-> IF @.outcome = "" THEN "response" ELSE @.outcome]]
    /\ UNCHANGED <<now, rate_limits, auto_check_limits, configured, models, files, running,
                   pc, msg, gate, context, request, calls, analysis, pattern_info, reply,
                   Admissions, faults, session, closed>>

\* Closing a session closes its connector: the requests in flight through it
\* are broken, whoever made them
CloseSession(all_tasks, s) ==
    [g \in Handlers |-> [i \in Sources |->
        IF all_tasks[g][i].state = "in_flight" /\ all_tasks[g][i].via = s
        THEN [all_tasks[g][i] EXCEPT !.outcome = "broken"]
        ELSE all_tasks[g][i]]]

\* asyncio.gather has every result: the results are collected and the
\* "async with" block is left, which closes the session this call opened;
\* self.session keeps referring to whatever it referred to
Gathered(h) ==
    /\ running = 0
    /\ ~ TasksWaiting
    /\ pc[h] = "gather"
    /\ \A i \in Sources : tasks[h][i].state = "done"
    /\ closed' = closed \cup {h}
    /\ tasks' = CloseSession(tasks, h)
    /\ pc' = [pc EXCEPT ![h] = "send_result"]
    /\ UNCHANGED <<now, rate_limits, auto_check_limits, configured, models, files, running,
                   msg, gate, context, request, calls, analysis, pattern_info, reply,
                   Admissions, faults, session>>

\* The result of a mention reply or of a command is sent
SendResult(h) ==
    /\ running = 0
    /\ pc[h] = "send_result"
    /\ reply' = [reply EXCEPT ![h] = {[kind |-> request[h].kind, analysis |-> analysis[h]]}]
    /\ pc' = [pc EXCEPT ![h] = "done"]
    /\ UNCHANGED <<now, rate_limits, auto_check_limits, configured, models, files, running,
                   msg, gate, context, request, calls, analysis, pattern_info,
                   Admissions, faults>>
    /\ UNCHANGED FactCheckerState

\* The services of set_model_command
ServiceProvider(service) ==
    IF service = "pawan" THEN {"PawanOsman"}
    ELSE IF service = "openai" THEN {"OpenAI"}
    ELSE IF service = "gemini" THEN {"Gemini"}
    ELSE {}

\* process_commands invokes set_model_command with "!setmodel <service> <model>":
\* the model of self.bot.ai_client is replaced when the service is one of the
\* three and its client is configured, and the outcome is sent
SetModel(h) ==
    /\ running = 0
    /\ pc[h] = "process_commands"
    /\ msg[h].content[1] = "!setmodel"
    /\ LET service == Lower(msg[h].content[2])
           model == msg[h].content[3]
           target == ServiceProvider(service) \cap configured
       IN  /\ models' = [models EXCEPT !["bot"] =
                            [p \in DOMAIN @ |-> IF p \in target THEN model ELSE @[p]]]
           /\ reply' = [reply EXCEPT ![h] =
                           {[kind |-> IF target = {} THEN "not updated" ELSE "model updated",
                             model |-> model]}]
    /\ pc' = [pc EXCEPT ![h] = "done"]
    /\ UNCHANGED <<now, rate_limits, auto_check_limits, configured, files, running, msg,
                   gate, context, request, calls, analysis, pattern_info,
                   Admissions, faults>>
    /\ UNCHANGED FactCheckerState

-----------------------------------------------------------------------------
(* Key phrases and the pattern files *)

\* keywords = [word for word in content.lower().split()
\*             if word not in stop_words and len(word) > 3]
Keywords(content) ==
    LET words == [i \in 1..Len(content) |-> Lower(content[i])]
        Keep(w) == w \notin stop_words /\ Len(w) > MIN_KEYWORD_LENGTH
    IN  SelectSeq(words, Keep)

\* The loop over range(len(keywords)): from position i on, the bigram and then
\* the trigram that start there.  A phrase "a b" is the tuple of its words.
RECURSIVE PhrasesFrom(_, _)
PhrasesFrom(keywords, i) ==
    IF i > Len(keywords) THEN <<>>
    ELSE (IF i < Len(keywords) THEN <<SubSeq(keywords, i, i + 1)>> ELSE <<>>)
         \o (IF i < Len(keywords) - 1 THEN <<SubSeq(keywords, i, i + 2)>> ELSE <<>>)
         \o PhrasesFrom(keywords, i + 1)

\* extract_key_phrases
extract_key_phrases(content) == Take(PhrasesFrom(Keywords(content), 1), MAX_KEY_PHRASES)

\* The file check_misinformation_patterns reads
QueryFileName(guild_id) ==
    IF guild_id # NoGuild
    THEN "data/community_patterns_" \o StrOf(guild_id) \o ".json"
    ELSE "data/patterns.json"

\* The file log_misinformation_event reads and writes
LogFileName(guild_id) ==
    "data/community_patterns_"
        \o (IF guild_id # NoGuild THEN StrOf(guild_id) ELSE "dm") \o ".json"

NoClaims == [p \in {} |-> [count |-> 0, examples |-> <<>>]]

\* frequency > 2
IsRecurringAtThreshold(frequency) == frequency >= RECURRING_THRESHOLD

IsRecurring(frequency) == frequency > RECURRING_THRESHOLD

\* The loop "for phrase in key_phrases" of check_misinformation_patterns:
\* <<frequency, similar_claims>>
RECURSIVE MatchClaims(_, _)
MatchClaims(claims, key_phrases) ==
    IF key_phrases = <<>> THEN <<0, <<>> >>
    ELSE LET phrase == Head(key_phrases)
             rest == MatchClaims(claims, Tail(key_phrases))
         IN  IF phrase \in DOMAIN claims
             THEN <<claims[phrase].count + rest[1],
                    Take(claims[phrase].examples, 2) \o rest[2]>>
             ELSE rest

\* check_misinformation_patterns; a file that does not load raises into the
\* outer except, which answers without key phrases
check_misinformation_patterns(store, content, guild_id) ==
    LET pattern_file == QueryFileName(guild_id)
        patterns == IF pattern_file \in DOMAIN store THEN store[pattern_file]
                    ELSE [claims |-> NoClaims, topics |-> EmptyDict]
        key_phrases == extract_key_phrases(content)
        found == MatchClaims(patterns.claims, key_phrases)
    IN  IF patterns = Corrupt
        THEN [is_recurring |-> FALSE, frequency |-> 0]
        ELSE [is_recurring |-> IsRecurring(found[1]),
              frequency |-> found[1],
              similar_claims |-> found[2],
              key_phrases |-> key_phrases]

\* hash(message.content) % 10000: Python salts hash per process; any function
\* of the text stands for it
ContentHash(content) == CharLen(content) % HASH_MODULUS

\* The loop, were the examples a list of the latest five
RECURSIVE UpdateClaimsKeepsLatest(_, _, _)
UpdateClaimsKeepsLatest(claims, key_phrases, snippet) ==
    IF key_phrases = <<>> THEN claims
    ELSE LET phrase == Head(key_phrases)
             old == IF phrase \in DOMAIN claims THEN claims[phrase]
                    ELSE [count |-> 0, examples |-> <<>>]
             all == Append(old.examples, snippet)
             new == [count |-> old.count + 1,
                     examples |-> IF Len(all) > MAX_EXAMPLES
                                  THEN SubSeq(all, Len(all) - MAX_EXAMPLES + 1, Len(all))
                                  ELSE all]
         IN  UpdateClaimsKeepsLatest(DictSet(claims, phrase, new), Tail(key_phrases), snippet)

\* The loop "for phrase in pattern_info.get('key_phrases', [])" of
\* log_misinformation_event
RECURSIVE UpdateClaims(_, _, _)
UpdateClaims(claims, key_phrases, snippet) ==
    IF key_phrases = <<>> THEN claims
    ELSE LET phrase == Head(key_phrases)
             old == IF phrase \in DOMAIN claims THEN claims[phrase]
                    ELSE [count |-> 0, examples |-> <<>>]
             new == [count |-> old.count + 1,
                     examples |-> IF Len(old.examples) < MAX_EXAMPLES
                                  THEN Append(old.examples, snippet)
                                  ELSE old.examples]
         IN  UpdateClaims(DictSet(claims, phrase, new), Tail(key_phrases), snippet)

AppendEventKeepsOldest(events, event) ==
    LET all == Append(events, event)
    IN  IF Len(all) > MAX_EVENTS THEN SubSeq(all, 1, MAX_EVENTS) ELSE all

\* data['events'].append(event); data['events'] = data['events'][-100:]
AppendEvent(events, event) ==
    LET all == Append(events, event)
    IN  IF Len(all) > MAX_EVENTS
        THEN SubSeq(all, Len(all) - MAX_EVENTS + 1, Len(all))
        ELSE all

\* log_misinformation_event: the store after the document is written back;
\* a file that does not load raises into the except and nothing is written
log_misinformation_event(store, m, a, info, t) ==
    LET log_file == LogFileName(m.guild)
        data == IF log_file \in DOMAIN store THEN store[log_file]
                ELSE [claims |-> NoClaims, topics |-> EmptyDict, events |-> <<>>]
        event == [timestamp |-> Isoformat(t),
                  user_id |-> StrOf(m.author),
                  content_hash |-> ContentHash(m.content),
                  truthiness_score |-> DictGet(a, "truthiness_percentage", 0),
                  urgency |-> DictGet(a, "urgency_level", "medium"),
                  key_phrases |-> DictGet(info, "key_phrases", <<>>)]
        updated == [data EXCEPT
                      !.claims = UpdateClaims(@, DictGet(info, "key_phrases", <<>>),
                                              Truncate(m.content, EXAMPLE_CHARS)),
                      !.events = AppendEvent(@, event)]
    IN  IF data = Corrupt THEN store ELSE DictSet(store, log_file, updated)

-----------------------------------------------------------------------------
(* The decision and the alert *)

get_alert_description_recurring_first(urgency, spread_risk, info) ==
    IF DictGet(info, "is_recurring", FALSE) THEN "RECURRING PATTERN"
    ELSE IF urgency = "high" THEN "HIGH PRIORITY"
    ELSE IF spread_risk = "high" THEN "SPREAD RISK"
    ELSE "generic"

\* get_alert_description
get_alert_description(urgency, spread_risk, info) ==
    IF urgency = "high" THEN "HIGH PRIORITY"
    ELSE IF DictGet(info, "is_recurring", FALSE) THEN "RECURRING PATTERN"
    ELSE IF spread_risk = "high" THEN "SPREAD RISK"
    ELSE "generic"

\* A JSON value that is no number (a string, null): comparing it with a
\* number raises TypeError
NotANumber == -1

\* The comparisons of the decision raise
DecisionRaises(a) ==
    /\ Truthy(a)
    /\ LET d == CHOOSE x \in a : TRUE
           truthiness == DictGet(d, "truthiness_percentage", 100)
       IN  \/ truthiness = NotANumber
           \/ /\ truthiness < AUTO_DETECT_TRUTHINESS_THRESHOLD
              /\ DictGet(d, "confidence", 0) = NotANumber

ShouldAlertAnyConfidence(a) ==
    /\ Truthy(a)
    /\ ~ DecisionRaises(a)
    /\ LET d == CHOOSE x \in a : TRUE
       IN  DictGet(d, "truthiness_percentage", 100) < AUTO_DETECT_TRUTHINESS_THRESHOLD

ShouldAlertAbsentAsZero(a) ==
    /\ Truthy(a)
    /\ ~ DecisionRaises(a)
    /\ LET d == CHOOSE x \in a : TRUE
       IN  /\ DictGet(d, "truthiness_percentage", 0) < AUTO_DETECT_TRUTHINESS_THRESHOLD
           /\ ~ (DictGet(d, "confidence", 0) < AUTO_DETECT_CONFIDENCE_THRESHOLD)

\* analysis and analysis.get('truthiness_percentage', 100) < threshold, then
\* "if confidence < AUTO_DETECT_CONFIDENCE_THRESHOLD: return"
ShouldAlert(a) ==
    /\ Truthy(a)
    /\ ~ DecisionRaises(a)
    /\ LET d == CHOOSE x \in a : TRUE
       IN  /\ DictGet(d, "truthiness_percentage", 100) < AUTO_DETECT_TRUTHINESS_THRESHOLD
           /\ ~ (DictGet(d, "confidence", 0) < AUTO_DETECT_CONFIDENCE_THRESHOLD)

EmbedSeverityFromPattern(a, info) ==
    LET urgency == DictGet(a, "urgency_level", "medium")
        spread_risk == DictGet(a, "spread_risk", "unknown")
        high == urgency = "high" /\ DictGet(info, "is_recurring", FALSE)
    IN  [title |-> IF high THEN "Community Misinformation Alert"
                   ELSE "Potential Misinformation Detected",
         description |-> get_alert_description(urgency, spread_risk, info),
         truthiness_score |-> DictGet(a, "truthiness_percentage", 0),
         pattern_alert |-> IF DictGet(info, "is_recurring", FALSE)
                           THEN {DictGet(info, "frequency", 0)} ELSE {},
         mention_author |-> high]

\* The embed, were its severity taken from the store instead of the analysis
EmbedSeverityFromStore(a, info) ==
    LET urgency == DictGet(a, "urgency_level", "medium")
        spread_risk == DictGet(a, "spread_risk", "unknown")
        high == urgency = "high" /\ DOMAIN files # {}
    IN  [title |-> IF high THEN "Community Misinformation Alert"
                   ELSE "Potential Misinformation Detected",
         description |-> get_alert_description(urgency, spread_risk, info),
         truthiness_score |-> DictGet(a, "truthiness_percentage", 0),
         pattern_alert |-> IF DictGet(info, "is_recurring", FALSE)
                           THEN {DictGet(info, "frequency", 0)} ELSE {},
         mention_author |-> high]

\* The embed of the alert and how it is sent
Embed(a, info) ==
    LET urgency == DictGet(a, "urgency_level", "medium")
        spread_risk == DictGet(a, "spread_risk", "unknown")
    IN  [title |-> IF urgency = "high" THEN "Community Misinformation Alert"
                   ELSE "Potential Misinformation Detected",
         description |-> get_alert_description(urgency, spread_risk, info),
         truthiness_score |-> DictGet(a, "truthiness_percentage", 0),
         pattern_alert |-> IF DictGet(info, "is_recurring", FALSE)
                           THEN {DictGet(info, "frequency", 0)} ELSE {},
         mention_author |-> urgency = "high"]

\* From the thresholds to "await message.reply(...)"
Decide(h) ==
    /\ running = h
    /\ pc[h] = "decide"
    /\ running' = 0
    /\ IF DecisionRaises(analysis[h])
       THEN /\ pattern_info' = pattern_info
            /\ pc' = [pc EXCEPT ![h] = OnException]
            /\ faults' = [faults EXCEPT ![h] = @ \cup {"malformed"}]
       ELSE IF ShouldAlert(analysis[h])
       THEN /\ pattern_info' = [pattern_info EXCEPT ![h] =
                   check_misinformation_patterns(files, msg[h].content, msg[h].guild)]
            /\ pc' = [pc EXCEPT ![h] = "reply"]
            /\ faults' = [faults EXCEPT ![h] =
                             IF Unreadable(files, QueryFileName(msg[h].guild))
                             THEN @ \cup {"load"} ELSE @]
       ELSE /\ pattern_info' = pattern_info
            /\ pc' = [pc EXCEPT ![h] = "done"]
            /\ faults' = faults
    /\ UNCHANGED <<now, rate_limits, auto_check_limits, configured, models, files, msg, gate,
                   context, request, calls, analysis, reply, Admissions>>
    /\ UNCHANGED FactCheckerState

\* message.reply has answered: when the alert went out the event is logged,
\* when it raised (the message is gone) the except clause logs the error
Reply(h, delivered, saved) ==
    /\ running = 0
    /\ pc[h] = "reply"
    /\ LET a == CHOOSE x \in analysis[h] : TRUE
       IN  IF delivered
           THEN /\ reply' = [reply EXCEPT ![h] = {Embed(a, pattern_info[h])}]
                /\ files' = WriteBack(files,
                                log_misinformation_event(files, msg[h], a,
                                                         pattern_info[h], now),
                                saved)
                /\ pc' = [pc EXCEPT ![h] = "done"]
                /\ faults' = [faults EXCEPT ![h] =
                                 IF Unreadable(files, LogFileName(msg[h].guild))
                                 THEN @ \cup {"load"}
                                 ELSE IF saved # "ok" THEN @ \cup {"save"} ELSE @]
           ELSE /\ reply' = reply
                /\ files' = files
                /\ pc' = [pc EXCEPT ![h] = OnException]
                /\ faults' = [faults EXCEPT ![h] = @ \cup {"reply"}]
    /\ UNCHANGED <<now, rate_limits, auto_check_limits, configured, models, running, msg, gate,
                   context, request, calls, analysis, pattern_info, Admissions>>
    /\ UNCHANGED FactCheckerState

-----------------------------------------------------------------------------
(* Inputs *)

CommandText == <<"!help", "vaccines", "cause", "autism">>
ClaimText == <<"vaccines", "cause", "autism">>
ShortText == <<"vaccines", "cause">>

AllRaise == [p \in Providers |-> Raises]

-----------------------------------------------------------------------------
(* Rate limiting over time: the commands, mentions and plain messages of    *)
(* one author (and the bot's own messages), one at a time, while the clock  *)
(* runs past both windows; every provider call raises.                      *)

RateMessages ==
    {Message(u, 1, FALSE, CommandText) : u \in {BotUser, 1}}
        \cup {Message(1, 1, TRUE, ClaimText),
              Message(1, 1, FALSE, ClaimText),
              Message(1, 1, FALSE, ShortText)}

InitRate == InitWith({"OpenAI"})

NextRate ==
    \/ Tick(MaxTime)
    \/ \E m \in RateMessages : OnMessage(1, m)
    \/ SendNotice(1)
    \/ ProcessCommands(1)
    \/ ReplyFactCheck(1, AllRaise)
    \/ SendResult(1)
    \/ History(1, {}, AllRaise)
    \/ CallProvider(1)
    \/ FinishRequest(1, AllRaise)
    \/ Decide(1)

SpecRate == InitRate /\ [][NextRate]_vars

-----------------------------------------------------------------------------
(* Rate limiting under concurrency: the commands and plain messages of one  *)
(* author, handled by coroutines that interleave at their awaits.           *)

RaceMessages == {Message(1, 1, FALSE, CommandText), Message(1, 1, FALSE, ClaimText)}

NextRace ==
    \/ Tick(RaceTime)
    \/ \E h \in Handlers :
          \/ \E m \in RaceMessages : OnMessage(h, m)
          \/ SendNotice(h)
          \/ ProcessCommands(h)
          \/ History(h, {}, AllRaise)
          \/ CallProvider(h)
          \/ FinishRequest(h, AllRaise)
          \/ Decide(h)

SpecRace == InitRate /\ [][NextRace]_vars

-----------------------------------------------------------------------------
(* Provider fallback: the plain messages of one author, one at a time, with *)
(* every set of configured providers and every way the three providers can  *)
(* answer each request: raising, clean JSON, JSON in a markdown fence, or    *)
(* text that is no JSON.                                                    *)

\* The analysis a provider's JSON holds; "reasoning" tells the providers apart
Payload(p, kind) ==
    IF kind = "community"
    THEN [truthiness_percentage |-> 30, confidence |-> 80, reasoning |-> p,
          urgency_level |-> "medium", spread_risk |-> "low"]
    ELSE [truthiness_percentage |-> 30, confidence |-> 80, reasoning |-> p]

Answers(p, kind) ==
    {Raises,
     Text(FALSE, TRUE, Payload(p, kind)),
     Text(TRUE, TRUE, Payload(p, kind)),
     Text(FALSE, FALSE, EmptyDict)}

Behaviours(kind) ==
    {b \in [Providers -> UNION {Answers(p, kind) : p \in Providers}] :
        \A p \in Providers : b[p] \in Answers(p, kind)}

ProvMessages == {Message(1, 1, FALSE, ClaimText)}

InitProv == \E providers \in (SUBSET Providers) \ {{}} : InitWith(providers)

NextProv ==
    \/ \E m \in ProvMessages : OnMessage(1, m)
    \/ \E b \in Behaviours("community") : History(1, {}, b)
    \/ CallProvider(1)
    \/ \E b \in Behaviours("truthiness") : FinishRequest(1, b)
    \/ Decide(1)
    \/ \E delivered \in BOOLEAN : Reply(1, delivered, "ok")

SpecProv == InitProv /\ [][NextProv]_vars

-----------------------------------------------------------------------------
(* Pattern files: plain messages of two authors in one community, handled   *)
(* by coroutines that interleave at their awaits.  The provider answers     *)
(* every request with an analysis that calls for an alert; the reply may     *)
(* fail because the message is gone.                                        *)

\* One key phrase: "vaccines cause"
OneText == <<"Vaccines", "are", "the", "cause">>

\* Five key phrases, "vaccines cause" first and last
DupText == <<"vaccines", "cause", "vaccines", "cause">>

PatternMessages == {Message(u, 1, FALSE, c) : u \in Users, c \in {OneText, DupText}}

AlertBehaviour == [p \in Providers |-> Text(FALSE, TRUE, Payload(p, "community"))]

InitPattern == InitWith({"OpenAI"})

NextPattern ==
    \E h \in Handlers :
        \/ \E m \in PatternMessages : OnMessage(h, m)
        \/ History(h, {}, AlertBehaviour)
        \/ CallProvider(h)
        \/ FinishRequest(h, AlertBehaviour)
        \/ Decide(h)
        \/ \E delivered \in BOOLEAN : Reply(h, delivered, "ok")

SpecPattern == InitPattern /\ [][NextPattern]_vars

-----------------------------------------------------------------------------
(* The decision: the plain messages of one author, one at a time, with every *)
(* analysis the provider can send around the two thresholds (fields absent,  *)
(* of the wrong type, just below and just at the threshold), a history fetch *)
(* that may raise, a reply that may fail and a pattern file that may not be  *)
(* written.  The text repeats a phrase, so the second alert of the community *)
(* meets a recurring pattern.                                               *)

Field(key, values) == {EmptyDict} \cup {key :> v : v \in values}

DecidePayloads(kind) ==
    IF kind = "community"
    THEN {t @@ c @@ u @@ r :
            t \in Field("truthiness_percentage", {49, 50, NotANumber}),
            c \in Field("confidence", {59, 60, NotANumber}),
            u \in Field("urgency_level", {"high", "medium"}),
            r \in Field("spread_risk", {"high"})}
    ELSE {t @@ c :
            t \in Field("truthiness_percentage", {49, 50, NotANumber}),
            c \in Field("confidence", {59, 60, NotANumber})}

DecideBehaviours(kind) ==
    {[p \in Providers |-> answer] :
        answer \in {Raises, Text(FALSE, FALSE, EmptyDict)}
                       \cup {Text(FALSE, TRUE, d) : d \in DecidePayloads(kind)}}

\* What channel.history yields: nothing, or one earlier message
Fetches ==
    {{}, {<<>>}, {<<[author |-> 2, content |-> ClaimText, created_at |-> 0]>>}}

DecideMessages == {Message(1, 1, FALSE, DupText)}

InitDecide == InitWith({"OpenAI"})

NextDecide ==
    \/ \E m \in DecideMessages : OnMessage(1, m)
    \/ \E fetched \in Fetches, b \in DecideBehaviours("community") : History(1, fetched, b)
    \/ CallProvider(1)
    \/ \E b \in DecideBehaviours("truthiness") : FinishRequest(1, b)
    \/ Decide(1)
    \/ \E delivered \in BOOLEAN, saved \in SaveOutcomes : Reply(1, delivered, saved)

SpecDecide == InitDecide /\ [][NextDecide]_vars

-----------------------------------------------------------------------------
(* The trend report: CommunityCog.misinformation_trends *)

\* timedelta(days=30), in minutes
TREND_WINDOW_MINUTES == 43200

misinformation_trends_inclusive(store, guild_id, t) ==
    LET pattern_file == "data/community_patterns_" \o StrOf(guild_id) \o ".json"
        Recent(e) == t - FromIsoformat(e.timestamp) <= TREND_WINDOW_MINUTES
    IN  IF guild_id = NoGuild THEN {[kind |-> "servers only"]}
        ELSE IF pattern_file \notin DOMAIN store THEN {[kind |-> "no patterns yet"]}
        ELSE IF store[pattern_file] = Corrupt THEN {}
        ELSE LET recent_events == SelectSeq(store[pattern_file].events, Recent)
                 High(e) == e.urgency = "high"
             IN  {[kind |-> "trends",
                   timestamp |-> Isoformat(t),
                   recent_events |-> recent_events,
                   total_alerts |-> Len(recent_events),
                   high_urgency |-> Len(SelectSeq(recent_events, High))]}

\* What the command sends: nothing when reading the file raises, a notice
\* outside a server or without a pattern file, else the report over
\* recent_events
misinformation_trends(store, guild_id, t) ==
    LET pattern_file == "data/community_patterns_" \o StrOf(guild_id) \o ".json"
        Recent(e) == t - FromIsoformat(e.timestamp) < TREND_WINDOW_MINUTES
    IN  IF guild_id = NoGuild THEN {[kind |-> "servers only"]}
        ELSE IF pattern_file \notin DOMAIN store THEN {[kind |-> "no patterns yet"]}
        ELSE IF store[pattern_file] = Corrupt THEN {}
        ELSE LET recent_events == SelectSeq(store[pattern_file].events, Recent)
                 High(e) == e.urgency = "high"
             IN  {[kind |-> "trends",
                   timestamp |-> Isoformat(t),
                   recent_events |-> recent_events,
                   total_alerts |-> Len(recent_events),
                   high_urgency |-> Len(SelectSeq(recent_events, High))]}

\* process_commands invokes misinformation_trends, which reads the file,
\* builds the embed and sends it
MisinformationTrends(h) ==
    /\ running = 0
    /\ pc[h] = "process_commands"
    /\ msg[h].content[1] = "!misinfotrends"
    /\ reply' = [reply EXCEPT ![h] = misinformation_trends(files, msg[h].guild, now)]
    /\ pc' = [pc EXCEPT ![h] = "done"]
    /\ UNCHANGED <<now, rate_limits, auto_check_limits, configured, models, files, running,
                   msg, gate, context, request, calls, analysis, pattern_info,
                   Admissions, faults>>
    /\ UNCHANGED FactCheckerState

\* The clock moves on by several minutes at once
Sleep(minutes, limit) ==
    /\ running = 0
    /\ now + minutes <= limit
    /\ now' = now + minutes
    /\ admit_log' = Prune(admit_log, now + minutes)
    /\ UNCHANGED <<rate_limits, auto_check_limits, configured, models, files, running, pc,
                   msg, gate, Locals, last_admit, was_rejected, faults>>
    /\ UNCHANGED FactCheckerState

-----------------------------------------------------------------------------
(* The event list: log_misinformation_event applied to the pattern file of   *)
(* one community once a minute, for more alerts than the list may hold; then *)
(* about thirty days pass.  A moderator asks for the trend report once, at    *)
(* any moment.                                                               *)

\* Events appended beyond the capacity of the list
ExtraEvents == 5

AlertAnalysis == Payload("OpenAI", "community")

\* "await self.log_misinformation_event(message, analysis, pattern_info)" for
\* an alert delivered at minute now, with the pattern_info queried for it
RecordAlert(m, a) ==
    /\ running = 0
    /\ \A h \in Handlers : pc[h] = "done"
    /\ now < MAX_EVENTS + ExtraEvents
    /\ files' = log_misinformation_event(
                    files, m, a,
                    check_misinformation_patterns(files, m.content, m.guild), now)
    /\ now' = now + 1
    /\ UNCHANGED <<rate_limits, auto_check_limits, configured, models, running, pc, msg,
                   gate, Locals, Admissions, faults>>
    /\ UNCHANGED FactCheckerState

EventMessages == {Message(1, 1, FALSE, OneText)}

InitEvents == InitWith({"OpenAI"})

TrendsMessages == {Message(1, 1, FALSE, <<"!misinfotrends">>)}

\* About thirty days: the window reaches into the list, ends at its newest
\* event, or is past it
Sleeps == {TREND_WINDOW_MINUTES - MAX_EVENTS, TREND_WINDOW_MINUTES - 2,
           TREND_WINDOW_MINUTES - 1}

NextEvents ==
    \/ \E m \in EventMessages : RecordAlert(m, AlertAnalysis)
    \/ \E d \in Sleeps : Sleep(d, TREND_WINDOW_MINUTES + MAX_EVENTS + ExtraEvents)
    \/ \E m \in TrendsMessages : rate_limits = EmptyDict /\ OnMessage(1, m)
    \/ MisinformationTrends(1)

SpecEvents == InitEvents /\ [][NextEvents]_vars

-----------------------------------------------------------------------------
(* Model names: an operator changes the OpenAI model with !setmodel while    *)
(* the same author's plain messages, mention replies and !truthiness and      *)
(* !expose commands are handled by interleaving coroutines.  Every provider   *)
(* call raises, so each request leaves one call in the record.               *)

NewModel == "gpt-4o-mini"

ModelMessages ==
    {Message(1, 1, FALSE, <<"!setmodel", "openai", NewModel>>),
     Message(1, 1, FALSE, <<"!setmodel", "pawan", "gpt-4">>),
     Message(1, 1, FALSE, <<"!truthiness", "vaccines", "cause", "autism">>),
     Message(1, 1, FALSE, <<"!expose", "vaccines", "cause", "autism">>),
     Message(1, 1, TRUE, ClaimText),
     Message(1, 1, FALSE, ClaimText)}

InitModel == InitWith({"OpenAI"})

NextModel ==
    \E h \in Handlers :
        \/ \E m \in ModelMessages : OnMessage(h, m)
        \/ SendNotice(h)
        \/ SetModel(h)
        \/ TruthinessCommand(h, AllRaise)
        \/ ExposeCommand(h, AllRaise)
        \/ CheckStatement(h)
        \/ SearchSource(h)
        \/ \E i \in Sources : SourceAnswers(h, i)
        \/ Gathered(h)
        \/ ReplyFactCheck(h, AllRaise)
        \/ History(h, {}, AllRaise)
        \/ CallProvider(h)
        \/ FinishRequest(h, AllRaise)
        \/ SendResult(h)
        \/ Decide(h)

SpecModel == InitModel /\ [][NextModel]_vars

-----------------------------------------------------------------------------
(* Repeated decisions: the plain messages of two authors, each in a community *)
(* of its own, handled by two coroutines, the provider answering each        *)
(* request with one of a few analyses.  The decisions are taken at          *)
(* different fill levels of the scan windows and with different pattern     *)
(* files in the store; a handler keeps its locals until its next message,   *)
(* so two decisions can be compared.                                        *)

PurePayloads ==
    {[truthiness_percentage |-> 30, confidence |-> 80, urgency_level |-> "high",
      spread_risk |-> "low"],
     [truthiness_percentage |-> 30, confidence |-> 80, urgency_level |-> "medium",
      spread_risk |-> "high"],
     [truthiness_percentage |-> 70, confidence |-> 80, urgency_level |-> "medium",
      spread_risk |-> "low"]}

PureBehaviours == {[p \in Providers |-> Text(FALSE, TRUE, d)] : d \in PurePayloads}

PureMessages == {Message(1, 1, FALSE, DupText), Message(2, 2, FALSE, DupText)}

InitPure == InitWith({"OpenAI"})

NextPure ==
    \E h \in Handlers :
        \/ \E m \in PureMessages : OnMessage(h, m)
        \/ \E b \in PureBehaviours : History(h, {}, b)
        \/ CallProvider(h)
        \/ \E b \in PureBehaviours : FinishRequest(h, b)
        \/ Decide(h)
        \/ \E delivered \in BOOLEAN : Reply(h, delivered, "ok")

SpecPure == InitPure /\ [][NextPure]_vars

-----------------------------------------------------------------------------
(* The windows of two authors: the commands and plain messages of two        *)
(* authors, one at a time, while the clock runs past the command window;     *)
(* every provider call raises.                                               *)

FrameTime == 1

FrameMessages ==
    {Message(u, 1, FALSE, c) : u \in Users, c \in {CommandText, ClaimText}}

NextFrame ==
    \/ Tick(FrameTime)
    \/ \E m \in FrameMessages : OnMessage(1, m)
    \/ SendNotice(1)
    \/ ProcessCommands(1)
    \/ History(1, {}, AllRaise)
    \/ CallProvider(1)
    \/ FinishRequest(1, AllRaise)
    \/ Decide(1)

SpecFrame == InitRate /\ [][NextFrame]_vars

-----------------------------------------------------------------------------
(* Examples of a pattern: the plain messages of one author, one at a time,   *)
(* in two wordings that yield the same key phrases, every one answered with  *)
(* an analysis that calls for an alert.  The clock moves on by a scan window *)
(* at a time, so the author is scanned more often than a pattern keeps       *)
(* examples.                                                                 *)

\* The key phrases of DupText in another wording
LongText == <<"Vaccines", "are", "the", "cause", "vaccines", "cause">>

ExampleTexts == {DupText, LongText}

ExampleMessages == {Message(1, 1, FALSE, c) : c \in ExampleTexts}

\* Scan windows that pass
ExampleWindows == 2

NextExamples ==
    \/ Sleep(AUTO_WINDOW_MINUTES, ExampleWindows * AUTO_WINDOW_MINUTES)
    \/ \E m \in ExampleMessages : OnMessage(1, m)
    \/ History(1, {}, AlertBehaviour)
    \/ CallProvider(1)
    \/ FinishRequest(1, AlertBehaviour)
    \/ Decide(1)
    \/ \E delivered \in BOOLEAN : Reply(1, delivered, "ok")

SpecExamples == InitPattern /\ [][NextExamples]_vars

-----------------------------------------------------------------------------
(* The channel: the plain messages of one author arrive in a channel that    *)
(* holds one earlier message per minute, some of them too short to count;    *)
(* every provider call raises.                                               *)

LOOKBACK_MESSAGES == 10
PROMPT_CONTEXT == 3
PROMPT_CHARS == 100

\* Minutes of channel traffic
ChannelMinutes == 12

ChatText == <<"ok">>

\* The channel's messages in the order they were posted, one a minute
ChannelLog ==
    [i \in 1..ChannelMinutes |->
        [author |-> 2,
         content |-> IF i \in {4, 9} THEN ChatText
                     ELSE IF i % 2 = 0 THEN ClaimText ELSE DupText,
         created_at |-> i - 1]]

Reverse(s) == [i \in 1..Len(s) |-> s[Len(s) + 1 - i]]

\* message.channel.history(limit=lookback_messages, before=message): without
\* "after" and "oldest_first" the iterator yields the messages posted before
\* the target from the newest to the oldest, limit of them at most
ChannelHistory(log, before, limit) ==
    LET Earlier(m) == m.created_at < before
    IN  Take(Reverse(SelectSeq(log, Earlier)), limit)

\* "for msg in conversation_context[-3:]" with msg.get('content', '')[:100]:
\* the lines of the prompt
PromptContext(conversation_context) ==
    LET n == Len(conversation_context)
        last == SubSeq(conversation_context,
                       IF n > PROMPT_CONTEXT THEN n - PROMPT_CONTEXT + 1 ELSE 1, n)
    IN  [i \in 1..Len(last) |->
            [author |-> last[i].author,
             content |-> Truncate(last[i].content, PROMPT_CHARS)]]

ContextMessages == {Message(1, 1, FALSE, ClaimText)}

NextContext ==
    \/ Tick(ChannelMinutes)
    \/ \E m \in ContextMessages : OnMessage(1, m)
    \/ History(1, {ChannelHistory(ChannelLog, gate[1].at, LOOKBACK_MESSAGES)}, AllRaise)
    \/ CallProvider(1)
    \/ FinishRequest(1, AllRaise)
    \/ Decide(1)

SpecContext == InitRate /\ [][NextContext]_vars

-----------------------------------------------------------------------------
(* Partitions: the plain messages of one author in a community and in a      *)
(* direct-message channel, one at a time, every one answered with an         *)
(* analysis that calls for an alert, while scan windows pass.                *)

PartitionMessages == {Message(1, g, FALSE, DupText) : g \in {NoGuild, 1}}

NextPartition ==
    \/ Sleep(AUTO_WINDOW_MINUTES, ExampleWindows * AUTO_WINDOW_MINUTES)
    \/ \E m \in PartitionMessages : OnMessage(1, m)
    \/ History(1, {<<>>}, AlertBehaviour)
    \/ CallProvider(1)
    \/ FinishRequest(1, AlertBehaviour)
    \/ Decide(1)
    \/ \E delivered \in BOOLEAN : Reply(1, delivered, "ok")

SpecPartition == InitPattern /\ [][NextPartition]_vars

-----------------------------------------------------------------------------
(* Failing writes: the commands and plain messages of one author, one at a   *)
(* time, every plain message answered with an analysis that calls for an     *)
(* alert.  Each write of data/rate_limits.json and of the pattern file may   *)
(* succeed, fail on open, or stop after the file has been truncated.         *)

SaveMessages == {Message(1, 1, FALSE, CommandText), Message(1, 1, FALSE, DupText)}

NextSave ==
    \/ \E m \in SaveMessages, saved \in SaveOutcomes : OnMessageSave(1, m, saved)
    \/ SendNotice(1)
    \/ ProcessCommands(1)
    \/ History(1, {<<>>}, AlertBehaviour)
    \/ CallProvider(1)
    \/ FinishRequest(1, AlertBehaviour)
    \/ Decide(1)
    \/ \E delivered \in BOOLEAN, saved \in SaveOutcomes : Reply(1, delivered, saved)

SpecSave == InitPattern /\ [][NextSave]_vars

-----------------------------------------------------------------------------
(* Concurrent fact checks: !expose commands of one author handled by          *)
(* interleaving coroutines, all through the one FactChecker of the ExposeCog. *)
(* Every provider call raises, so the analysis of each command is None.       *)

SessionMessages == {Message(1, 1, FALSE, <<"!expose", "vaccines", "cause", "autism">>)}

NextSession ==
    \E h \in Handlers :
        \/ \E m \in SessionMessages : OnMessage(h, m)
        \/ SendNotice(h)
        \/ ExposeCommand(h, AllRaise)
        \/ CallProvider(h)
        \/ FinishRequest(h, AllRaise)
        \/ CheckStatement(h)
        \/ SearchSource(h)
        \/ \E i \in Sources : SourceAnswers(h, i)
        \/ Gathered(h)
        \/ SendResult(h)

SpecSession == InitModel /\ [][NextSession]_vars

-----------------------------------------------------------------------------
(* Claims about the rate limiters *)

\* Handler h has just had a rate-limit check made for its message
Checked(h) == gate'[h] # gate[h] /\ gate'[h].result # "none"

\* The stored window of limiter lim for user u, as times
WindowIn(store, u) ==
    LET stored == DictGet(store, StrOf(u), <<>>)
    IN  [i \in 1..Len(stored) |-> FromIsoformat(stored[i])]

StoredWindow(lim, u) ==
    WindowIn(IF lim = "command" THEN rate_limits ELSE auto_check_limits, u)

\* C1: for both limiters and every identity, once maxEvents checks have been
\* admitted inside one window, a further check inside that window admits
\* nothing: the handler is told "rejected" (the notice is sent, the scan is
\* skipped) and no admission is added.
C1_RejectedWhenFull ==
    [][\A lim \in Limiters, u \in Authors :
          (Len(admit_log[lim][u]) >= MaxEventsOf(lim) /\ now' = now)
              => /\ admit_log'[lim][u] = admit_log[lim][u]
                 /\ \A h \in Handlers :
                       (Checked(h) /\ gate'[h].limiter = lim /\ msg'[h].author = u)
                           => /\ gate'[h].result = "rejected"
                              /\ pc'[h] = IF lim = "command" THEN "send_notice"
                                          ELSE "done"]_vars

\* C1 witness: an automatic scan is skipped at a time when the two admitted
\* scans of its author lie at different minutes of the running window.
C1_Witness ==
    \E h \in Handlers :
        /\ gate[h] = [result |-> "rejected", limiter |-> "auto", at |-> now]
        /\ pc[h] = "done"
        /\ Len(admit_log["auto"][msg[h].author]) = AUTO_DETECT_RATE_LIMIT
        /\ admit_log["auto"][msg[h].author][1] < admit_log["auto"][msg[h].author][2]
        /\ admit_log["auto"][msg[h].author][2] < now

\* C2: an identity that a limiter has rejected is admitted again by a check
\* made more than the window after its last admitted event; the window that
\* is stored then holds that one new event.
C2_AdmittedAfterWindow ==
    [][\A h \in Handlers :
          LET lim == gate'[h].limiter
              u == msg'[h].author
          IN  (/\ Checked(h)
               /\ was_rejected[lim][u]
               /\ last_admit[lim][u] >= 0
               /\ now - last_admit[lim][u] > WindowOf(lim))
                  => /\ gate'[h].result = "admitted"
                     /\ WindowIn(IF lim = "command" THEN rate_limits'
                                  ELSE auto_check_limits', u) = <<now>>]_vars

\* C2 witness: an author whose scans were rejected is scanned again once the
\* five minutes have passed.
C2_Witness ==
    \E h \in Handlers :
        /\ gate[h].result = "admitted"
        /\ gate[h].limiter = "auto"
        /\ was_rejected["auto"][msg[h].author]
        /\ gate[h].at > AUTO_WINDOW_MINUTES
        /\ StoredWindow("auto", msg[h].author) = <<gate[h].at>>

\* The admissions of log that lie inside the window of lim at the present time
InsideWindow(lim, times) ==
    LET Inside(ts) == now - ts < WindowOf(lim)
    IN  SelectSeq(times, Inside)

\* C3: the two limiters share no state.  A check of the command limiter
\* leaves every automatic-scan window as it was and a check of the
\* automatic-scan limiter leaves every command window as it was; whether a
\* check is admitted depends on the admissions of its own limiter alone.
C3_LimitersIndependent ==
    [][/\ (rate_limits' = rate_limits \/ auto_check_limits' = auto_check_limits)
       /\ \A h \in Handlers :
             Checked(h) =>
                LET lim == gate'[h].limiter
                    u == msg'[h].author
                IN  /\ lim = "command" => auto_check_limits' = auto_check_limits
                    /\ lim = "auto" => rate_limits' = rate_limits
                    /\ gate'[h].result = "admitted"
                          <=> Len(admit_log[lim][u]) < MaxEventsOf(lim)]_vars

\* C3 witness: a command is admitted for an author whose automatic scans are
\* being rejected, the automatic-scan window being full.
C3_Witness ==
    \E h \in Handlers :
        /\ gate[h] = [result |-> "admitted", limiter |-> "command", at |-> now]
        /\ was_rejected["auto"][msg[h].author]
        /\ Len(InsideWindow("auto", StoredWindow("auto", msg[h].author)))
              = AUTO_DETECT_RATE_LIMIT
        /\ Len(StoredWindow("command", msg[h].author)) < MAX_COMMANDS_WINDOW

\* C4: checks are linearizable per identity.  However the handlers
\* interleave, the admissions of one identity inside one window never exceed
\* the limiter's ceiling, and the stored window holds exactly the admissions
\* made (none is lost to a concurrent handler).
C4_Linearizable ==
    \A lim \in Limiters, u \in Users :
        /\ Len(admit_log[lim][u]) <= MaxEventsOf(lim)
        /\ InsideWindow(lim, StoredWindow(lim, u)) = admit_log[lim][u]

\* C4 witness: two messages of one author are in flight together, the window
\* had room for one: the first is admitted and waits for the channel history,
\* the second was checked meanwhile and skipped.
C4_Witness ==
    \E h1, h2 \in Handlers :
        /\ h1 # h2
        /\ msg[h1].author = msg[h2].author
        /\ pc[h1] = "history"
        /\ gate[h1] = [result |-> "admitted", limiter |-> "auto", at |-> now]
        /\ gate[h2] = [result |-> "rejected", limiter |-> "auto", at |-> now]
        /\ Len(admit_log["auto"][msg[h1].author]) = AUTO_DETECT_RATE_LIMIT

-----------------------------------------------------------------------------
(* Claims about the provider fallback *)

\* Priority of a provider: PawanOsman, then OpenAI, then Gemini
Rank(p) == CASE p = "PawanOsman" -> 1 [] p = "OpenAI" -> 2 [] p = "Gemini" -> 3

\* The invocations made for the request handler h is in
CallsOfRequest(h) ==
    LET Mine(c) == c.request = request[h].kind
    IN  SelectSeq(calls[h], Mine)

Invoked(h) == {CallsOfRequest(h)[i].provider : i \in 1..Len(CallsOfRequest(h))}

\* A provider's answer is a valid payload that parses as it stands
ValidJson(answer) == ~ answer.error /\ answer.json /\ ~ answer.fenced

\* C5: providers are tried strictly in priority order, skipping those that
\* are not configured, and the first response of a call that does not raise
\* (time out, transport error) is what the request returns.  A provider is
\* invoked only after every configured provider of higher priority has been
\* invoked and has raised; when PawanOsman raises and OpenAI returns a valid
\* payload the request returns OpenAI's payload and Gemini is not invoked.
C5_PriorityOrder ==
    \A h \in Handlers :
        request[h].kind # "none" =>
            LET cs == CallsOfRequest(h)
                b == request[h].behaviour
            IN  /\ \A i \in 1..Len(cs) :
                      /\ cs[i].provider \in configured
                      /\ \A q \in configured :
                            Rank(q) < Rank(cs[i].provider)
                                => \E j \in 1..(i - 1) :
                                      /\ cs[j].provider = q
                                      /\ b[q].error
                      /\ \A j \in 1..(i - 1) :
                            Rank(cs[j].provider) < Rank(cs[i].provider)
                /\ request[h].done =>
                      /\ cs # <<>>
                      /\ LET last == cs[Len(cs)].provider
                         IN  IF b[last].error
                             THEN /\ request[h].response = {}
                                  /\ Invoked(h) = configured
                             ELSE \E t \in request[h].response :
                                     /\ t.payload = b[last].payload
                                     /\ t.json = b[last].json
                /\ (/\ request[h].done
                    /\ {"PawanOsman", "OpenAI"} \subseteq configured
                    /\ b["PawanOsman"].error
                    /\ ValidJson(b["OpenAI"]))
                      => /\ request[h].response = {b["OpenAI"]}
                         /\ "Gemini" \notin Invoked(h)

\* C5 witness: all three providers are configured, PawanOsman raised, OpenAI
\* answered with its payload, and Gemini, which would have answered too, was
\* not invoked.
C5_Witness ==
    \E h \in Handlers :
        /\ configured = Providers
        /\ request[h].kind = "community"
        /\ request[h].done
        /\ request[h].behaviour["PawanOsman"].error
        /\ ValidJson(request[h].behaviour["OpenAI"])
        /\ ValidJson(request[h].behaviour["Gemini"])
        /\ [i \in 1..Len(calls[h]) |-> calls[h][i].provider] = <<"PawanOsman", "OpenAI">>
        /\ ParsedResponse(request[h].response) = {Payload("OpenAI", "community")}

\* C6: a provider whose text does not parse as JSON counts as failed and the
\* next provider is tried: when PawanOsman returns unparseable text and
\* OpenAI would return a valid payload, the analysis is OpenAI's parsed
\* payload.
C6_UnparseableFallsThrough ==
    \A h \in Handlers :
        (/\ request[h].kind = "community"
         /\ request[h].done
         /\ {"PawanOsman", "OpenAI"} \subseteq configured
         /\ ~ request[h].behaviour["PawanOsman"].error
         /\ JsonLoads(request[h].behaviour["PawanOsman"]) = {}
         /\ ValidJson(request[h].behaviour["OpenAI"]))
            => ParsedResponse(request[h].response)
                  = {request[h].behaviour["OpenAI"].payload}

\* Every configured provider was invoked for the request of that kind and raised
Exhausted(h, kind) ==
    \A q \in configured :
        \E i \in 1..Len(calls[h]) :
            /\ calls[h][i].request = kind
            /\ calls[h][i].provider = q
            /\ calls[h][i].raised

\* C7: when every configured provider raises, the request returns None and
\* the handler goes on; the automatic scan then makes the rate_truthiness
\* request before it decides, and when that one is exhausted as well the
\* message ends without an alert, the handler having returned.
C7_DegradedPath ==
    \A h \in Handlers :
        /\ (request[h].done /\ Exhausted(h, request[h].kind))
              => request[h].response = {}
        /\ (pc[h] \in {"decide", "reply"} /\ Exhausted(h, "community"))
              => /\ request[h].kind = "truthiness"
                 /\ \E i \in 1..Len(calls[h]) : calls[h][i].request = "truthiness"
        /\ (/\ pc[h] = "decide"
            /\ Exhausted(h, "community")
            /\ Exhausted(h, "truthiness"))
              => /\ analysis[h] = {}
                 /\ ~ ShouldAlert(analysis[h])
        /\ (/\ pc[h] = "done"
            /\ gate[h].result = "admitted"
            /\ gate[h].limiter = "auto"
            /\ Exhausted(h, "community"))
              => /\ request[h].kind = "truthiness"
                 /\ running # h
                 /\ Exhausted(h, "truthiness") => reply[h] = {}

\* C7 witness: with the three providers configured, all three raised for the
\* community analysis and again for the truthiness rating, and the handler
\* has returned without an alert.
C7_Witness ==
    \E h \in Handlers :
        /\ configured = Providers
        /\ pc[h] = "done"
        /\ gate[h].result = "admitted"
        /\ Exhausted(h, "community")
        /\ Exhausted(h, "truthiness")
        /\ Len(calls[h]) = 2 * Cardinality(Providers)
        /\ reply[h] = {}
        /\ running = 0

\* C7 second witness state: the degraded rating answered after the community
\* analysis was exhausted, and its alert went out.
C7_DegradedAlert ==
    \E h \in Handlers :
        /\ pc[h] = "done"
        /\ Exhausted(h, "community")
        /\ request[h].kind = "truthiness"
        /\ reply[h] # {}

-----------------------------------------------------------------------------
(* Claims about the community pattern files *)

\* The step in which handler h runs its pattern query
Queried(h) == pc[h] = "decide" /\ pc'[h] = "reply"

PhrasesOf(key_phrases) == {key_phrases[i] : i \in DOMAIN key_phrases}

\* The claims table of the partition a message of the guild is matched against
ClaimsOf(store, guild_id) ==
    IF QueryFileName(guild_id) \in DOMAIN store
    THEN store[QueryFileName(guild_id)].claims
    ELSE NoClaims

\* C8: in a community partition where a single key phrase has been recorded
\* n times and no other phrase has been recorded, the next pattern query for
\* a message containing that phrase reports frequency n; in a partition with
\* nothing recorded the query reports frequency 0.
C8_FrequencyIsCount ==
    [][\A h \in Handlers :
          Queried(h) =>
              LET claims == ClaimsOf(files, msg[h].guild)
                  key_phrases == extract_key_phrases(msg[h].content)
              IN  /\ DOMAIN claims = {} => pattern_info'[h].frequency = 0
                  /\ \A phrase \in PhrasesOf(key_phrases) :
                        DOMAIN claims = {phrase}
                            => pattern_info'[h].frequency = claims[phrase].count]_vars

\* C8: a state the counted case reaches when the phrase occurs once among the
\* message's key phrases: one phrase recorded twice, the query reports 2.
C8_CountedOnce ==
    \E h \in Handlers :
        /\ pc[h] = "reply"
        /\ msg[h].content = OneText
        /\ \E phrase \in DOMAIN ClaimsOf(files, msg[h].guild) :
              /\ DOMAIN ClaimsOf(files, msg[h].guild) = {phrase}
              /\ ClaimsOf(files, msg[h].guild)[phrase].count = 2
        /\ pattern_info[h].frequency = 2

\* How many of the message's key phrases are this phrase
Multiplicity(key_phrases, phrase) ==
    Cardinality({i \in DOMAIN key_phrases : key_phrases[i] = phrase})

\* The sum of the stored counts of the message's key phrases, phrase by phrase
RECURSIVE SumCounts(_, _, _)
SumCounts(claims, key_phrases, phrases) ==
    IF phrases = {} THEN 0
    ELSE LET phrase == CHOOSE x \in phrases : TRUE
             stored == IF phrase \in DOMAIN claims THEN claims[phrase].count ELSE 0
         IN  stored * Multiplicity(key_phrases, phrase)
                 + SumCounts(claims, key_phrases, phrases \ {phrase})

AggregateFrequency(store, m) ==
    LET key_phrases == extract_key_phrases(m.content)
    IN  SumCounts(ClaimsOf(store, m.guild), key_phrases, PhrasesOf(key_phrases))

\* C9: a pattern query reports is_recurring = TRUE exactly when the aggregate
\* frequency, the sum of the stored counts of all of the message's key
\* phrases, is strictly greater than 2: FALSE at 0, 1 and 2, TRUE from 3 on.
C9_RecurringAboveTwo ==
    [][\A h \in Handlers :
          Queried(h) =>
              LET aggregate == AggregateFrequency(files, msg[h])
              IN  /\ pattern_info'[h].frequency = aggregate
                  /\ pattern_info'[h].is_recurring = (aggregate > 2)
                  /\ aggregate \in {0, 1, 2} => pattern_info'[h].is_recurring = FALSE
                  /\ aggregate >= 3 => pattern_info'[h].is_recurring = TRUE]_vars

\* C9 witness: one query met an aggregate of 2 and reported no recurrence,
\* another met an aggregate of 3 and reported a recurring pattern.
C9_Witness ==
    \E h1, h2 \in Handlers :
        /\ pc[h1] \in {"reply", "done"} /\ pattern_info[h1] # NoPatternInfo
        /\ pattern_info[h1].frequency = 2
        /\ pattern_info[h1].is_recurring = FALSE
        /\ pc[h2] = "reply"
        /\ pattern_info[h2].frequency = 3
        /\ pattern_info[h2].is_recurring = TRUE
        /\ AggregateFrequency(files, msg[h2]) = 3

\* Handler g has run its pattern query and has not yet recorded its event
BetweenQueryAndRecord(g) == pc[g] = "reply"

\* C10: for two messages of the same community with an overlapping key
\* phrase, the query and the record of one message form one atomic unit: no
\* query of one is made while the other stands between its query and its
\* record, so both never read the same pre-update frequency.
C10_QueryRecordAtomic ==
    [][\A h, g \in Handlers :
          (/\ h # g
           /\ Queried(h)
           /\ BetweenQueryAndRecord(g)
           /\ msg[g].guild = msg[h].guild)
              => PhrasesOf(extract_key_phrases(msg[h].content))
                     \cap PhrasesOf(pattern_info[g].key_phrases) = {}]_vars

\* C10: the outcome the claim excludes: two alerts of the same text in one
\* community, both delivered and recorded, both reporting the same frequency.
C10_BothReadStale ==
    \E h, g \in Handlers :
        /\ h # g
        /\ pc[h] = "done" /\ pc[g] = "done"
        /\ reply[h] # {} /\ reply[g] # {}
        /\ msg[h].guild = msg[g].guild
        /\ msg[h].content = msg[g].content
        /\ pattern_info[h].frequency = pattern_info[g].frequency
        /\ ClaimsOf(files, msg[h].guild)[<<"vaccines", "cause">>].count = 2

-----------------------------------------------------------------------------
(* Claims about the alert decision *)

\* The analysis of handler h, when it is a non-empty dict
HasAnalysis(h) == Truthy(analysis[h])

AnalysisOf(h) == CHOOSE d \in analysis[h] : TRUE

\* An alert for the message of handler h is on its way or has been sent
Alerting(h) == pc[h] = "reply" \/ reply[h] # {}

Absent(h, key) == key \notin DOMAIN AnalysisOf(h)

Number(h, key) == ~ Absent(h, key) /\ AnalysisOf(h)[key] # NotANumber

\* The pattern file of the message's community holds a recurring pattern for it
RecurringFor(h) ==
    /\ ~ Unreadable(files, QueryFileName(msg[h].guild))
    /\ AggregateFrequency(files, msg[h]) > RECURRING_THRESHOLD

\* C11: whenever the analysis confidence is below the confidence threshold
\* (0.6), or the analysis has no confidence field, no alert is emitted, for
\* every truthiness score, urgency, spread risk and pattern state.
C11_LowConfidenceSuppressed ==
    \A h \in Handlers :
        (/\ HasAnalysis(h)
         /\ \/ Absent(h, "confidence")
            \/ /\ Number(h, "confidence")
               /\ AnalysisOf(h).confidence < AUTO_DETECT_CONFIDENCE_THRESHOLD)
            => ~ Alerting(h)

\* C11 witness: an analysis with truthiness 49, urgency high, spread risk
\* high and confidence 59 has been decided in a community whose pattern file
\* holds a recurring pattern for the message, and no alert was sent.
C11_Witness ==
    \E h \in Handlers :
        /\ pc[h] = "done"
        /\ HasAnalysis(h)
        /\ Number(h, "truthiness_percentage") /\ AnalysisOf(h).truthiness_percentage = 49
        /\ Number(h, "confidence") /\ AnalysisOf(h).confidence = 59
        /\ DictGet(AnalysisOf(h), "urgency_level", "medium") = "high"
        /\ DictGet(AnalysisOf(h), "spread_risk", "unknown") = "high"
        /\ RecurringFor(h)
        /\ faults[h] = {}
        /\ reply[h] = {}

\* C11: the same outcome when the analysis has no confidence field at all
C11_AbsentConfidence ==
    \E h \in Handlers :
        /\ pc[h] = "done"
        /\ HasAnalysis(h)
        /\ Number(h, "truthiness_percentage") /\ AnalysisOf(h).truthiness_percentage = 49
        /\ Absent(h, "confidence")
        /\ faults[h] = {}
        /\ reply[h] = {}

\* C12: whenever the truthiness percentage is at or above the threshold (50),
\* or the analysis has no truthiness field, no alert is emitted, for every
\* confidence, urgency and pattern state; an alert is emitted only if the
\* truthiness is below the threshold and the confidence is at or above the
\* confidence threshold.
C12_CredibleSuppressed ==
    \A h \in Handlers :
        /\ (/\ HasAnalysis(h)
            /\ \/ Absent(h, "truthiness_percentage")
               \/ /\ Number(h, "truthiness_percentage")
                  /\ AnalysisOf(h).truthiness_percentage
                         >= AUTO_DETECT_TRUTHINESS_THRESHOLD)
               => ~ Alerting(h)
        /\ Alerting(h)
               => /\ HasAnalysis(h)
                  /\ Number(h, "truthiness_percentage")
                  /\ AnalysisOf(h).truthiness_percentage < AUTO_DETECT_TRUTHINESS_THRESHOLD
                  /\ Number(h, "confidence")
                  /\ AnalysisOf(h).confidence >= AUTO_DETECT_CONFIDENCE_THRESHOLD

\* C12 witness: an analysis without a truthiness field, with confidence 60 and
\* urgency high, has been decided against a recurring pattern and no alert
\* was sent.
C12_Witness ==
    \E h \in Handlers :
        /\ pc[h] = "done"
        /\ HasAnalysis(h)
        /\ Absent(h, "truthiness_percentage")
        /\ Number(h, "confidence") /\ AnalysisOf(h).confidence = 60
        /\ DictGet(AnalysisOf(h), "urgency_level", "medium") = "high"
        /\ RecurringFor(h)
        /\ faults[h] = {}
        /\ reply[h] = {}

\* C12: truthiness exactly at the threshold, confidence at its threshold
C12_AtThreshold ==
    \E h \in Handlers :
        /\ pc[h] = "done"
        /\ HasAnalysis(h)
        /\ Number(h, "truthiness_percentage") /\ AnalysisOf(h).truthiness_percentage = 50
        /\ Number(h, "confidence") /\ AnalysisOf(h).confidence = 60
        /\ faults[h] = {}
        /\ reply[h] = {}

\* The analysis of handler h calls for an alert
Qualifies(h) ==
    /\ HasAnalysis(h)
    /\ Number(h, "truthiness_percentage")
    /\ AnalysisOf(h).truthiness_percentage < AUTO_DETECT_TRUTHINESS_THRESHOLD
    /\ Number(h, "confidence")
    /\ AnalysisOf(h).confidence >= AUTO_DETECT_CONFIDENCE_THRESHOLD

C13_HighAndRecurring ==
    \E h \in Handlers :
        /\ pc[h] = "done"
        /\ Qualifies(h)
        /\ DictGet(AnalysisOf(h), "urgency_level", "medium") = "high"
        /\ pattern_info[h].is_recurring = TRUE
        /\ reply[h] # {}
        /\ \A e \in reply[h] : e.title = "Community Misinformation Alert" /\ e.mention_author

\* C14: the description of an alert is exactly one of four wordings chosen by
\* fixed precedence over urgency, spread risk and recurrence: the
\* high-urgency wording whenever urgency is 'high'; otherwise the
\* recurring-pattern wording whenever the pattern is recurring; otherwise the
\* spread-risk wording whenever spread risk is 'high'; otherwise the generic
\* wording.
C14_DescriptionPrecedence ==
    \A h \in Handlers :
        reply[h] # {} =>
            LET embed == CHOOSE e \in reply[h] : TRUE
                high == DictGet(AnalysisOf(h), "urgency_level", "medium") = "high"
                recurring == DictGet(pattern_info[h], "is_recurring", FALSE)
                spreading == DictGet(AnalysisOf(h), "spread_risk", "unknown") = "high"
            IN  /\ embed.description
                       \in {"HIGH PRIORITY", "RECURRING PATTERN", "SPREAD RISK", "generic"}
                /\ high => embed.description = "HIGH PRIORITY"
                /\ (~ high /\ recurring) => embed.description = "RECURRING PATTERN"
                /\ (~ high /\ ~ recurring /\ spreading) => embed.description = "SPREAD RISK"
                /\ (~ high /\ ~ recurring /\ ~ spreading) => embed.description = "generic"

\* C14 witness: alerts of all eight combinations of high urgency, recurrence
\* and high spread risk are reachable; this one is urgency high on a
\* recurring pattern with high spread risk, described as high priority only.
C14_Witness ==
    \E h \in Handlers :
        /\ reply[h] # {}
        /\ DictGet(AnalysisOf(h), "urgency_level", "medium") = "high"
        /\ DictGet(pattern_info[h], "is_recurring", FALSE)
        /\ DictGet(AnalysisOf(h), "spread_risk", "unknown") = "high"
        /\ \A e \in reply[h] : e.description = "HIGH PRIORITY"

\* C14: a recurring pattern with high spread risk and urgency below high
C14_RecurringOverSpread ==
    \E h \in Handlers :
        /\ reply[h] # {}
        /\ DictGet(AnalysisOf(h), "urgency_level", "medium") # "high"
        /\ DictGet(pattern_info[h], "is_recurring", FALSE)
        /\ DictGet(AnalysisOf(h), "spread_risk", "unknown") = "high"
        /\ \A e \in reply[h] : e.description = "RECURRING PATTERN"

\* C14: high spread risk alone
C14_SpreadOnly ==
    \E h \in Handlers :
        /\ reply[h] # {}
        /\ DictGet(AnalysisOf(h), "urgency_level", "medium") # "high"
        /\ ~ DictGet(pattern_info[h], "is_recurring", FALSE)
        /\ DictGet(AnalysisOf(h), "spread_risk", "unknown") = "high"
        /\ \A e \in reply[h] : e.description = "SPREAD RISK"

\* C14: none of the three
C14_Generic ==
    \E h \in Handlers :
        /\ reply[h] # {}
        /\ DictGet(AnalysisOf(h), "urgency_level", "medium") # "high"
        /\ ~ DictGet(pattern_info[h], "is_recurring", FALSE)
        /\ DictGet(AnalysisOf(h), "spread_risk", "unknown") # "high"
        /\ \A e \in reply[h] : e.description = "generic"

-----------------------------------------------------------------------------
(* Claims about the event list *)

EventsOf(store, guild_id) ==
    IF LogFileName(guild_id) \in DOMAIN store /\ ~ Unreadable(store, LogFileName(guild_id))
    THEN store[LogFileName(guild_id)].events
    ELSE <<>>

\* The events appended to the community's list so far: every alert of the
\* one-phrase text adds one to the count of its phrase
Appended(store, guild_id) ==
    LET claims == ClaimsOf(store, guild_id)
    IN  IF <<"vaccines", "cause">> \in DOMAIN claims
        THEN claims[<<"vaccines", "cause">>].count ELSE 0

\* C15: the event list of a community never holds more than N = 100 events
\* after an append, and eviction is strict FIFO: with the k-th event appended
\* at minute k - 1, the list is exactly the most recent min(appended, N)
\* events in append order; after N + 5 appends the 5 oldest are gone.
C15_EventRingFifo ==
    LET events == EventsOf(files, 1)
        appended == Appended(files, 1)
        kept == IF appended < 100 THEN appended ELSE 100
    IN  /\ Len(events) <= 100
        /\ Len(events) = kept
        /\ \A i \in 1..Len(events) :
              events[i].timestamp = Isoformat(appended - kept + i - 1)

\* C15 witness: N + 5 events have been appended; the list holds 100, the
\* first of them the sixth appended and the last the one appended last.
C15_Witness ==
    LET events == EventsOf(files, 1)
    IN  /\ Appended(files, 1) = MAX_EVENTS + ExtraEvents
        /\ Len(events) = MAX_EVENTS
        /\ events[1].timestamp = Isoformat(ExtraEvents)
        /\ events[MAX_EVENTS].timestamp = Isoformat(MAX_EVENTS + ExtraEvents - 1)
        /\ \A i \in 1..Len(events), t \in 0..(ExtraEvents - 1) :
              events[i].timestamp # Isoformat(t)

\* The step in which handler h sends the trend report
Reported(h) ==
    /\ pc[h] = "process_commands" /\ pc'[h] = "done"
    /\ msg[h].content[1] = "!misinfotrends"
    /\ reply'[h] # {}
    /\ \A r \in reply'[h] : r.kind = "trends"

Age(e) == now - FromIsoformat(e.timestamp)

\* C16: the recent-events query of the trend report returns exactly the stored
\* events of the community whose timestamp is newer than now - 30 days, in
\* stored order, never an older event, and never more than N = 100 entries.
C16_RecentEventsExact ==
    [][\A h \in Handlers :
          Reported(h) =>
              LET report == CHOOSE r \in reply'[h] : TRUE
                  stored == EventsOf(files, msg[h].guild)
                  newer == {i \in 1..Len(stored) : Age(stored[i]) < 30 * 24 * 60}
                  recent == report.recent_events
              IN  /\ Len(recent) <= 100
                  /\ Len(recent) = Cardinality(newer)
                  /\ report.total_alerts = Cardinality(newer)
                  /\ \A j \in 1..Len(recent) :
                        /\ Age(recent[j]) < 30 * 24 * 60
                        /\ \E i \in newer :
                              /\ stored[i] = recent[j]
                              /\ Cardinality({k \in newer : k <= i}) = j]_vars

\* C16 witness: a report made when the list held 100 events, the oldest of
\* them exactly thirty days old and left out, the next one a minute newer
\* and the first of the 99 reported.
C16_Witness ==
    \E h \in Handlers :
        /\ pc[h] = "done"
        /\ reply[h] # {}
        /\ LET report == CHOOSE r \in reply[h] : TRUE
               stored == EventsOf(files, msg[h].guild)
           IN  /\ report.kind = "trends"
               /\ report.timestamp = Isoformat(now)
               /\ Len(stored) = MAX_EVENTS
               /\ Age(stored[1]) = TREND_WINDOW_MINUTES
               /\ report.total_alerts = MAX_EVENTS - 1
               /\ report.recent_events[1] = stored[2]

\* C16: a report of all 100 stored events
C16_AllRecent ==
    \E h \in Handlers :
        /\ reply[h] # {}
        /\ \A r \in reply[h] : r.kind = "trends" /\ r.total_alerts = MAX_EVENTS

-----------------------------------------------------------------------------
(* Claims about failures inside the automatic scan *)

\* Handler h has left the history await behind with a provider request made
PastContext(h) ==
    /\ pc[h] \in {"request", "decide", "reply", "done"}
    /\ request[h].kind \in {"community", "truthiness"}
    /\ pc[h] \in {"decide", "reply", "done"}
          => /\ request[h].done
             /\ pc[h] # "decide" => running # h
             /\ \E i \in 1..Len(calls[h]) : calls[h][i].request = "community"

\* C17: if fetching the channel history fails, context collection returns an
\* empty window instead of propagating the error, and the pipeline for that
\* message still proceeds to the provider analysis and the decision.
C17_FetchFailureDegrades ==
    [][\A h \in Handlers :
          /\ (pc[h] = "history" /\ pc'[h] # "history" /\ "fetch" \in faults'[h])
                => /\ context'[h] = <<>>
                   /\ pc'[h] = "request"
                   /\ request'[h].kind = "community"
                   /\ ~ request'[h].done
          /\ "fetch" \in faults'[h] => PastContext(h)']_vars

\* C17 witness: the history fetch of a message raised, the analysis was made
\* on an empty context, and the alert for the message was delivered.
C17_Witness ==
    \E h \in Handlers :
        /\ "fetch" \in faults[h]
        /\ context[h] = <<>>
        /\ pc[h] = "done"
        /\ Len(calls[h]) >= 1
        /\ HasAnalysis(h)
        /\ reply[h] # {}

\* C17: a fetch that answers leaves its messages in the context
C17_ContextCollected ==
    \E h \in Handlers : pc[h] = "done" /\ faults[h] = {} /\ Len(context[h]) = 1 /\ reply[h] # {}

\* Every provider call made for the message of handler h raised
ProvidersFailed(h) ==
    /\ calls[h] # <<>>
    /\ \A i \in 1..Len(calls[h]) : calls[h][i].raised

\* C18: no failure inside the automatic detection pipeline (provider failure,
\* malformed analysis, pattern-file read or write failure, a reply that
\* cannot be sent) escapes the message handler: no handler is left with an
\* unhandled exception, a handler that met a failure ends like any other, and
\* when every handler has ended the event loop is free for the next message.
C18_FailuresContained ==
    /\ \A h \in Handlers :
          /\ pc[h] # "crashed"
          /\ pc[h] \in {"done", "history", "request", "decide", "reply",
                        "send_notice", "process_commands", "reply_fact_check"}
          /\ (pc[h] = "done" /\ (faults[h] # {} \/ ProvidersFailed(h))) => running # h
    /\ (\A h \in Handlers : pc[h] = "done") => running = 0

\* C18 witness: an earlier alert left the pattern file unreadable (its write
\* failed); the author's next message was admitted, its query and its record
\* met the unreadable file, and its handler has ended with the alert sent.
C18_Witness ==
    \E h \in Handlers :
        /\ Unreadable(files, LogFileName(msg[h].guild))
        /\ Len(StoredWindow("auto", msg[h].author)) = 2
        /\ pc[h] = "done"
        /\ "load" \in faults[h]
        /\ reply[h] # {}
        /\ running = 0

\* C18: the handler has ended after every provider raised for both requests
C18_ProviderFailure ==
    \E h \in Handlers :
        pc[h] = "done" /\ ProvidersFailed(h) /\ Len(calls[h]) = 2 /\ reply[h] = {}

\* C18: the handler has ended after an analysis with a string for a number
C18_MalformedAnalysis ==
    \E h \in Handlers : pc[h] = "done" /\ "malformed" \in faults[h] /\ reply[h] = {}

\* C18: the handler has ended after the reply could not be sent
C18_ReplyFailure ==
    \E h \in Handlers : pc[h] = "done" /\ "reply" \in faults[h] /\ reply[h] = {}

\* C18: the handler has ended after the pattern file could not be written
C18_WriteFailure ==
    \E h \in Handlers : pc[h] = "done" /\ "save" \in faults[h] /\ reply[h] # {}

-----------------------------------------------------------------------------
(* Claims about the provider configuration *)

\* The step in which handler h makes a provider call
Called(h) == Len(calls'[h]) = Len(calls[h]) + 1

LastCall(h) == calls'[h][Len(calls'[h])]

\* The step in which handler h changes the model of a configured service
ModelSet(h) ==
    /\ pc[h] = "process_commands" /\ pc'[h] = "done"
    /\ msg[h].content[1] = "!setmodel"
    /\ ServiceProvider(msg[h].content[2]) \cap configured # {}

\* C19: after an operator changes a provider's model name with setmodel,
\* every analysis request issued afterwards -- by the automatic scan, the
\* mention reply, and the expose and truthiness commands -- names the new
\* model for that provider; requests issued before the change are unaffected.
C19_ModelChangeTakesEffect ==
    [][\A h \in Handlers :
          /\ ModelSet(h)
                => \A p \in ServiceProvider(msg[h].content[2]) :
                      models'["bot"][p] = msg[h].content[3]
          /\ Called(h)
                => /\ LastCall(h).model = models["bot"][LastCall(h).provider]
                   /\ SubSeq(calls'[h], 1, Len(calls[h])) = calls[h]]_vars

\* C19: the requests that go through FactCheckBot.ai_client, those of the
\* automatic scan and of the mention reply, name the model set last
C19_BotClientFollows ==
    [][\A h \in Handlers :
          (Called(h) /\ LastCall(h).request \in {"community", "truthiness", "statement"})
              => LastCall(h).model = models["bot"][LastCall(h).provider]]_vars

\* C19: the model was changed and a scan and a mention reply made after it
\* named the new model
C19_BotClientWitness ==
    \E h, g \in Handlers :
        /\ models["bot"]["OpenAI"] = NewModel
        /\ calls[h] # <<>> /\ calls[h][1].request = "community" /\ calls[h][1].model = NewModel
        /\ calls[g] # <<>> /\ calls[g][1].request = "statement" /\ calls[g][1].model = NewModel

\* C19: the model was changed and a truthiness command and an expose command
\* made after it named the old model
C19_CogsKeepOldModel ==
    \E h, g \in Handlers :
        /\ models["bot"]["OpenAI"] = NewModel
        /\ calls[h] # <<>> /\ calls[h][1].request = "cmd_truthiness"
        /\ calls[h][1].model = DefaultModels["OpenAI"]
        /\ calls[g] # <<>> /\ calls[g][1].request = "cmd_expose"
        /\ calls[g][1].model = DefaultModels["OpenAI"]

\* The names under which a result could identify its provider
ProviderKeys == {"providerUsed", "provider_used", "provider"}

\* The provider whose text the last request of handler h returned
ReturnedBy(h) == calls[h][Len(calls[h])].provider

\* C20: every successful analysis result identifies the provider that
\* produced it (providerUsed), and that identifier is the provider whose
\* response was actually returned.
C20_ProviderIdentified ==
    \A h \in Handlers :
        (HasAnalysis(h) /\ calls[h] # <<>>)
            => \E key \in ProviderKeys :
                  /\ ~ Absent(h, key)
                  /\ AnalysisOf(h)[key] = ReturnedBy(h)

\* C20: an analysis came back from Gemini after an earlier provider raised,
\* and the result holds the fields of the provider's JSON and nothing else
C20_ResultIsProviderJson ==
    \E h \in Handlers :
        /\ HasAnalysis(h)
        /\ Len(calls[h]) > 1
        /\ calls[h][1].raised
        /\ ReturnedBy(h) = "Gemini"
        /\ AnalysisOf(h) = Payload("Gemini", calls[h][Len(calls[h])].request)
        /\ DOMAIN AnalysisOf(h) \cap ProviderKeys = {}

-----------------------------------------------------------------------------
(* Claims about the decision as a function *)

\* The scan of handler h's message has passed the thresholds
Decided(h) ==
    /\ gate[h].result = "admitted" /\ gate[h].limiter = "auto"
    /\ pc[h] \in {"reply", "done"}

\* The verdict of that decision: an alert is on its way, was sent, or was
\* sent and failed
Verdict(h) == pc[h] = "reply" \/ reply[h] # {} \/ "reply" \in faults[h]

\* C21: the decision is a pure function of (analysis, patternInfo,
\* thresholds): two evaluations with the same analysis give the same
\* alert/no-alert verdict, and with the same pattern info as well the same
\* severity and description, whatever the rate-limit windows, the pattern
\* files and the event lists hold and however many decisions came before.
C21_DecisionIsFunction ==
    \A h, g \in Handlers :
        (Decided(h) /\ Decided(g) /\ analysis[h] = analysis[g])
            => /\ Verdict(h) = Verdict(g)
               /\ (reply[h] # {} /\ reply[g] # {} /\ pattern_info[h] = pattern_info[g])
                     => reply[h] = reply[g]

\* C21 witness: two alerts were sent on the same analysis and the same
\* pattern info, in two communities and for two authors whose scan windows
\* are filled differently: the second decision was taken with the first's
\* pattern file in the store.
C21_Witness ==
    \E h, g \in Handlers :
        /\ h # g
        /\ Decided(h) /\ Decided(g)
        /\ reply[h] # {} /\ reply[g] # {}
        /\ analysis[h] = analysis[g]
        /\ pattern_info[h] = pattern_info[g]
        /\ msg[h].guild # msg[g].guild
        /\ msg[h].author # msg[g].author
        /\ Len(StoredWindow("auto", msg[h].author)) # Len(StoredWindow("auto", msg[g].author))

\* C21: the verdict does not follow the pattern info: the same analysis was
\* decided once on a recurring pattern and once on none, with the same verdict
C21_VerdictIgnoresPattern ==
    \E h, g \in Handlers :
        /\ Decided(h) /\ Decided(g)
        /\ reply[h] # {} /\ reply[g] # {}
        /\ analysis[h] = analysis[g]
        /\ pattern_info[h].is_recurring /\ ~ pattern_info[g].is_recurring
        /\ reply[h] # reply[g]

-----------------------------------------------------------------------------
(* Claims about the attempts of one request *)

RequestKinds == {"community", "truthiness", "statement", "cmd_truthiness", "cmd_expose"}

\* The invocations handler h has made for its request of the given kind
CallsOfKind(h, kind) ==
    LET Mine(c) == c.request = kind
    IN  SelectSeq(calls[h], Mine)

\* C22: within one request each configured provider is invoked at most once
\* (a provider that failed is not tried again), so a request makes at most
\* as many provider calls as there are configured providers.
C22_OneAttemptEach ==
    \A h \in Handlers, kind \in RequestKinds :
        LET made == CallsOfKind(h, kind)
        IN  /\ \A i, j \in 1..Len(made) : made[i].provider = made[j].provider => i = j
            /\ \A i \in 1..Len(made) : made[i].provider \in configured
            /\ Len(made) <= Cardinality(configured)

\* C22 witness: three providers are configured, all three raised for the
\* community request, and the request ended after those three calls.
C22_Witness ==
    \E h \in Handlers :
        /\ Cardinality(configured) = 3
        /\ Len(CallsOfKind(h, "community")) = 3
        /\ \A i \in 1..3 : CallsOfKind(h, "community")[i].raised
        /\ request[h].kind = "truthiness"

-----------------------------------------------------------------------------
(* Claims about what a rate-limit check writes *)

StoreOf(lim) == IF lim = "command" THEN rate_limits ELSE auto_check_limits

\* C23: a rejected rate-limit check appends nothing: the stored windows of
\* its limiter, of the rejected identity and of all others, are left as they
\* were.  An admitted check appends exactly one timestamp, the current time,
\* to the window of its identity (the entries still inside the window) and
\* leaves the windows of all other identities as they were.
C23_RejectedAppendsNothing ==
    [][\A h \in Handlers :
          Checked(h) =>
              LET lim == gate'[h].limiter
                  u == msg'[h].author
                  old == StoreOf(lim)
                  new == IF lim = "command" THEN rate_limits' ELSE auto_check_limits'
                  kept == FilterWindow(DictGet(old, StrOf(u), <<>>), now, WindowOf(lim))
              IN  /\ gate'[h].result = "rejected" => new = old
                  /\ gate'[h].result = "admitted"
                        => /\ DOMAIN new = DOMAIN old \cup {StrOf(u)}
                           /\ new[StrOf(u)] = Append(kept, Isoformat(now))
                           /\ \A v \in DOMAIN old \ {StrOf(u)} : new[v] = old[v]]_vars

\* C23 witness: a command of one author is rejected at a full window while
\* the other author holds a window of the same limiter, and the first
\* author's scans have been admitted and recorded beside it.
C23_Witness ==
    \E h \in Handlers, v \in Users :
        /\ gate[h] = [result |-> "rejected", limiter |-> "command", at |-> now]
        /\ pc[h] = "send_notice"
        /\ v # msg[h].author
        /\ Len(StoredWindow("command", msg[h].author)) = MAX_COMMANDS_WINDOW
        /\ Len(StoredWindow("command", v)) > 0
        /\ Len(StoredWindow("auto", msg[h].author)) > 0

\* C23: an admitted command left its timestamp behind the entry of the same
\* author that was still inside the window, next to the other author's window
C23_AdmittedAppendsOne ==
    \E h \in Handlers, v \in Users :
        /\ gate[h] = [result |-> "admitted", limiter |-> "command", at |-> now]
        /\ v # msg[h].author
        /\ StoredWindow("command", msg[h].author) = <<now, now>>
        /\ now > 0
        /\ Len(StoredWindow("command", v)) > 0

-----------------------------------------------------------------------------
(* Claims about the examples of a pattern *)

\* The snippet stored for the message of event e
SnippetOf(e) ==
    Truncate(CHOOSE c \in ExampleTexts : ContentHash(c) = e.content_hash, EXAMPLE_CHARS)

\* The snippets of the occurrences of phrase in the events, in arrival order:
\* one for each time an event lists the phrase
RECURSIVE Occurrences(_, _)
Occurrences(events, phrase) ==
    IF events = <<>> THEN <<>>
    ELSE LET e == Head(events)
             Is(p) == p = phrase
         IN  [i \in 1..Len(SelectSeq(e.key_phrases, Is)) |-> SnippetOf(e)]
                 \o Occurrences(Tail(events), phrase)

\* C24: for every pattern entry, after any sequence of record operations the
\* examples hold at most 5 snippets and they are the snippets of the first
\* (up to) 5 occurrences in arrival order; once 5 are stored, later
\* occurrences still raise the count but add, replace and evict nothing.
C24_ExamplesAreFirstFive ==
    \A g \in {1} :
        LET claims == ClaimsOf(files, g)
            events == EventsOf(files, g)
        IN  \A p \in DOMAIN claims :
                /\ Len(claims[p].examples) <= MAX_EXAMPLES
                /\ claims[p].examples = Take(Occurrences(events, p), MAX_EXAMPLES)
                /\ claims[p].count = Len(Occurrences(events, p))

\* C24 witness: a phrase listed once per message has been recorded six times,
\* the first five in one wording and the sixth in the other; the examples are
\* the first five.
C24_Witness ==
    LET claims == ClaimsOf(files, 1)
        p == <<"cause", "vaccines">>
    IN  /\ p \in DOMAIN claims
        /\ claims[p].count = MAX_EXAMPLES + 1
        /\ claims[p].examples = [i \in 1..MAX_EXAMPLES |-> DupText]
        /\ EventsOf(files, 1)[MAX_EXAMPLES + 1].content_hash = ContentHash(LongText)

-----------------------------------------------------------------------------
(* Claims about the context window *)

\* The context of handler h's message has been collected
Collected(h) ==
    /\ gate[h].result = "admitted" /\ gate[h].limiter = "auto"
    /\ pc[h] \in {"request", "decide", "reply", "done"}

\* The entry get_conversation_context makes of a channel message
EntryOf(m) ==
    [author |-> StrOf(m.author),
     content |-> Truncate(m.content, CONTEXT_CHARS),
     timestamp |-> Isoformat(m.created_at)]

\* The qualifying messages posted before time t, oldest first
QualifyingBefore(t) ==
    LET Counts(m) == m.created_at < t /\ CharLen(m.content) > MIN_CONTEXT_LENGTH
    IN  SelectSeq(ChannelLog, Counts)

\* The last n elements of s
LastOf(s, n) == SubSeq(s, IF Len(s) > n THEN Len(s) - n + 1 ELSE 1, Len(s))

\* C26: the context window holds at most 5 entries, they are the 5 most
\* recent qualifying messages (stripped length > 10) that precede the target
\* message, and they are in chronological order with the most recent last,
\* so that the last 3 entries, which go into the prompt, are the 3 messages
\* closest in time to the target message.
C26_ContextMostRecentLast ==
    \A h \in Handlers :
        Collected(h) =>
            LET recent == LastOf(QualifyingBefore(gate[h].at), MAX_CONTEXT)
                expected == [i \in 1..Len(recent) |-> EntryOf(recent[i])]
            IN  /\ Len(context[h]) <= MAX_CONTEXT
                /\ context[h] = expected
                /\ PromptContext(context[h])
                      = PromptContext([i \in 1..Len(recent) |-> EntryOf(recent[i])])

\* C26: what the window holds instead: of the messages the history call
\* yields, the first 5 that qualify, in the order yielded (newest first)
C26_ContextNewestFirst ==
    \A h \in Handlers :
        Collected(h) =>
            LET yielded == ChannelHistory(ChannelLog, gate[h].at, LOOKBACK_MESSAGES)
                Counts(m) == CharLen(m.content) > MIN_CONTEXT_LENGTH
                kept == Take(SelectSeq(yielded, Counts), MAX_CONTEXT)
            IN  /\ Len(context[h]) <= MAX_CONTEXT
                /\ context[h] = [i \in 1..Len(kept) |-> EntryOf(kept[i])]
                /\ \A i, j \in 1..Len(context[h]) :
                      i < j => FromIsoformat(context[h][i].timestamp)
                                  > FromIsoformat(context[h][j].timestamp)

\* C26: a window of 5 entries was collected and the 3 entries of the prompt
\* are the 3 oldest of the 5: the two messages closest to the target are left
\* out of the prompt
C26_PromptHoldsOldest ==
    \E h \in Handlers :
        /\ Collected(h)
        /\ Len(context[h]) = MAX_CONTEXT
        /\ \A i \in 1..PROMPT_CONTEXT :
              /\ PromptContext(context[h])[i].content = context[h][i + 2].content
              /\ \A j \in 1..2 :
                    FromIsoformat(context[h][i + 2].timestamp)
                        < FromIsoformat(context[h][j].timestamp)

-----------------------------------------------------------------------------
(* Claims about what a scan leaves behind *)

\* The scan of handler h's message has run to its end without a failure
ScanEnded(h) ==
    /\ gate[h].result = "admitted" /\ gate[h].limiter = "auto"
    /\ pc[h] = "done"
    /\ faults[h] = {}

\* The community's event list holds an event for the message of handler h
EventLogged(h) ==
    \E i \in 1..Len(EventsOf(files, msg[h].guild)) :
        LET e == EventsOf(files, msg[h].guild)[i]
        IN  /\ e.user_id = StrOf(msg[h].author)
            /\ e.content_hash = ContentHash(msg[h].content)
            /\ FromIsoformat(e.timestamp) >= gate[h].at

\* The community's pattern file holds every key phrase of the message
PhrasesRecorded(h) ==
    LET key_phrases == extract_key_phrases(msg[h].content)
    IN  \A i \in 1..Len(key_phrases) :
            key_phrases[i] \in DOMAIN ClaimsOf(files, msg[h].guild)

\* C27: for every message that passes the rate-limit gate of the automatic
\* scan the stages run in the order rate check, context, analysis, pattern
\* query/update, decision, and the resulting decision -- alert or no alert --
\* is persisted to the community's event list and its key phrases are
\* recorded in the pattern file.
C27_EveryDecisionPersisted ==
    \A h \in Handlers : ScanEnded(h) => (EventLogged(h) /\ PhrasesRecorded(h))

\* C27: what holds: a scan that ended with its alert delivered has logged
\* the event and recorded the key phrases
C27_AlertPersisted ==
    \A h \in Handlers :
        (ScanEnded(h) /\ reply[h] # {}) => (EventLogged(h) /\ PhrasesRecorded(h))

\* C27: a scan ended on an analysis that calls for no alert and no file was
\* written: the decision was taken before any pattern query, and nothing of
\* it is kept
C27_NoAlertLeavesNoTrace ==
    \E h \in Handlers :
        /\ ScanEnded(h)
        /\ HasAnalysis(h)
        /\ ~ Absent(h, "truthiness_percentage")
        /\ AnalysisOf(h)["truthiness_percentage"] = AUTO_DETECT_TRUTHINESS_THRESHOLD
        /\ reply[h] = {}
        /\ pattern_info[h] = NoPatternInfo
        /\ files = EmptyDict

-----------------------------------------------------------------------------
(* Claims about concurrent writers of a pattern file *)

\* The number of times the events list phrase, a phrase repeated in one
\* message counting each time
RECURSIVE Listed(_, _)
Listed(events, phrase) ==
    IF events = <<>> THEN 0
    ELSE LET Is(p) == p = phrase
         IN  Len(SelectSeq(Head(events).key_phrases, Is)) + Listed(Tail(events), phrase)

\* Handler h logs the event of its alert in this step
Logs(h) == pc[h] = "reply" /\ reply'[h] # {}

\* The events that list phrase among their key phrases
EventsListing(events, phrase) ==
    {i \in 1..Len(events) :
        \E j \in 1..Len(events[i].key_phrases) : events[i].key_phrases[j] = phrase}

\* C28: concurrent writers of one community's pattern file are serialized, so
\* no update is lost: in every interleaving of concurrently handled messages,
\* after k events containing key phrase p have been logged for a community
\* the stored count of p equals k and the event list contains all k events.
C28_CountEqualsEvents ==
    \A p \in DOMAIN ClaimsOf(files, 1) :
        ClaimsOf(files, 1)[p].count = Cardinality(EventsListing(EventsOf(files, 1), p))

\* C28: what holds: in every interleaving of the handlers, each logged event
\* is appended behind all events logged before it, no other step changes the
\* file, and the stored count of a phrase is the number of times the logged
\* events list it.
C28_NoLostUpdate ==
    [][/\ \A h \in Handlers :
             Logs(h) =>
                 LET g == msg[h].guild
                     before == EventsOf(files, g)
                     after == EventsOf(files', g)
                 IN  /\ Len(after) = Len(before) + 1
                     /\ SubSeq(after, 1, Len(before)) = before
                     /\ after[Len(after)].user_id = StrOf(msg[h].author)
                     /\ after[Len(after)].key_phrases = extract_key_phrases(msg[h].content)
       /\ (\A h \in Handlers : ~ Logs(h)) => files' = files
       /\ \A p \in DOMAIN ClaimsOf(files', 1) :
             ClaimsOf(files', 1)[p].count = Listed(EventsOf(files', 1), p)]_vars

\* C28: two handlers queried the same empty file before either had logged,
\* both alerts were delivered, and the file holds both events and counts both
C28_BothLogged ==
    \E h1, h2 \in Handlers :
        /\ h1 # h2
        /\ msg[h1].content = OneText /\ msg[h2].content = OneText
        /\ reply[h1] # {} /\ reply[h2] # {}
        /\ pattern_info[h1].frequency = 0 /\ pattern_info[h2].frequency = 0
        /\ Len(EventsOf(files, 1)) = 2
        /\ ClaimsOf(files, 1)[<<"vaccines", "cause">>].count = 2

\* C28: one event that lists a phrase twice has been logged and the count of
\* the phrase is two
C28_OneEventCountedTwice ==
    /\ Len(EventsOf(files, 1)) = 1
    /\ EventsOf(files, 1)[1].key_phrases = extract_key_phrases(DupText)
    /\ ClaimsOf(files, 1)[<<"vaccines", "cause">>].count = 2

-----------------------------------------------------------------------------
(* Claims about the partition of a message *)

\* The alert of handler h's message has been delivered and logged
Recorded(h) == ScanEnded(h) /\ reply[h] # {}

\* C29: for every message, one with no community (a direct message)
\* included, the pattern query reads the same partition document that the
\* record step for that message writes, so that occurrences recorded for a
\* partition are visible to the next query of that partition.
C29_QueryReadsRecordedPartition ==
    \A h \in Handlers :
        Recorded(h) =>
            /\ QueryFileName(msg[h].guild) = LogFileName(msg[h].guild)
            /\ check_misinformation_patterns(files, msg[h].content, msg[h].guild).frequency
                  > pattern_info[h].frequency

\* C29: what holds: for a message of a community the query reads the file
\* the record writes, and the next query sees the recorded occurrences
C29_CommunityPartition ==
    \A h \in Handlers :
        (Recorded(h) /\ msg[h].guild # NoGuild) =>
            /\ QueryFileName(msg[h].guild) = LogFileName(msg[h].guild)
            /\ check_misinformation_patterns(files, msg[h].content, msg[h].guild).frequency
                  > pattern_info[h].frequency

\* C29: three alerts on direct messages have been logged, each query found
\* nothing, and the file the query reads does not exist
C29_DirectMessagesNeverRecur ==
    \E h \in Handlers :
        /\ Recorded(h)
        /\ msg[h].guild = NoGuild
        /\ Len(EventsOf(files, NoGuild)) = 3
        /\ pattern_info[h].frequency = 0
        /\ ~ pattern_info[h].is_recurring
        /\ QueryFileName(NoGuild) \notin DOMAIN files
        /\ LogFileName(NoGuild) \in DOMAIN files

-----------------------------------------------------------------------------
(* Claims about failing writes *)

\* The write of data/rate_limits.json failed for the command of handler h
RateSaveFailed(h) ==
    /\ gate[h].result = "admitted" /\ gate[h].limiter = "command"
    /\ "save" \in faults[h]

\* The in-memory window holds the admission and the command goes on
AdmissionKept(h) ==
    LET window == StoredWindow("command", msg[h].author)
    IN  /\ window # <<>>
        /\ window[Len(window)] = gate[h].at
        /\ pc[h] \in {"process_commands", "done"}

\* The alert of handler h was delivered and the write of the pattern file
\* failed, the file having been readable
PatternSaveFailed(h) ==
    /\ gate[h].result = "admitted" /\ gate[h].limiter = "auto"
    /\ pc[h] = "done"
    /\ reply[h] # {}
    /\ faults[h] = {"save"}

\* A query of the same text made now sees the occurrence recorded last
OccurrenceVisible(h) ==
    check_misinformation_patterns(files, msg[h].content, msg[h].guild).frequency
        > pattern_info[h].frequency

\* C25: when the durable write of a store fails, the failure is logged and
\* the in-memory view is still updated so that the current decision proceeds:
\* for the rate limiter a failed save leaves the admitted timestamp in the
\* in-memory window and the check returns true; for the pattern store a
\* failed write does not lose the recorded occurrence for later queries in
\* the same process.
C25_FailedWriteKeepsView ==
    \A h \in Handlers :
        /\ RateSaveFailed(h) => AdmissionKept(h)
        /\ PatternSaveFailed(h) => OccurrenceVisible(h)

\* C25: what holds, for the rate limiter: after a failed save the admitted
\* timestamp is in the in-memory window and the command is processed
C25_RateLimiterKeepsAdmission ==
    \A h \in Handlers : RateSaveFailed(h) => AdmissionKept(h)

\* C25: the save of an admitted command failed and left the file unreadable,
\* and the window in memory holds the admission
C25_AdmittedDespiteFailedSave ==
    \E h \in Handlers :
        /\ RateSaveFailed(h)
        /\ AdmissionKept(h)
        /\ Unreadable(files, RateLimitsFile)

\* C25: the write of the pattern file failed on open after a delivered alert:
\* the file is as the query found it and a later query does not see the
\* occurrence
C25_OccurrenceLost ==
    \E h \in Handlers :
        /\ PatternSaveFailed(h)
        /\ ~ Unreadable(files, LogFileName(msg[h].guild))
        /\ check_misinformation_patterns(files, msg[h].content, msg[h].guild).frequency
              = pattern_info[h].frequency

\* C25: the write of the pattern file stopped after truncating it: the file
\* no longer loads and a later query reports nothing at all
C25_FileLost ==
    \E h \in Handlers :
        /\ PatternSaveFailed(h)
        /\ pattern_info[h].frequency > 0
        /\ Unreadable(files, LogFileName(msg[h].guild))
        /\ check_misinformation_patterns(files, msg[h].content, msg[h].guild).frequency = 0

-----------------------------------------------------------------------------
(* Claims about the session of concurrent fact checks *)

\* The requests handler h has made in its current check_statement
Requested(h) == {i \in Sources : tasks[h][i].via # 0}

\* C30: when two check_statement calls on the same FactChecker run
\* concurrently, each call's source requests use only the HTTP session that
\* call opened and never a session that has already been closed: no
\* interleaving lets one call's requests go through, or be broken by the
\* closing of, the other call's session held in the shared self.session field.
C30_RequestsUseOwnSession ==
    \A h \in Handlers : \A i \in Requested(h) :
        /\ tasks[h][i].via = h
        /\ tasks[h][i].outcome \notin {"closed", "broken"}

\* C30: what holds: no request is started on a session that is already
\* closed (the tasks of a call run before any call can end)
C30_NeverStartsOnClosed ==
    \A h \in Handlers : \A i \in Requested(h) : tasks[h][i].outcome # "closed"

\* C30: what holds: a call alone uses the session it opened and every one of
\* its requests ends with the response
C30_AloneUsesOwnSession ==
    \A h \in Handlers :
        (\A g \in Handlers \ {h} : pc[g] \notin {"check_statement", "gather"}
                                    /\ \A i \in Sources : tasks[g][i].state = "none")
            => \A i \in Requested(h) : tasks[h][i].via = h /\ tasks[h][i].outcome \in {"", "response"}

\* C30: two calls wait in gather and every request of one of them is in
\* flight through the session the other one opened
C30_ThroughOtherSession ==
    \E h \in Handlers, g \in Handlers :
        /\ h # g
        /\ pc[h] = "gather" /\ pc[g] = "gather"
        /\ \A i \in Sources : tasks[h][i].state = "in_flight" /\ tasks[h][i].via = g

\* C30: a call has ended and closed its session under the requests of the
\* other call, which end with a connection error
C30_BrokenByOtherClose ==
    \E h \in Handlers, g \in Handlers :
        /\ h # g
        /\ pc[h] = "gather"
        /\ g \in closed
        /\ \A i \in Sources :
              /\ tasks[h][i].state = "done"
              /\ tasks[h][i].via = g
              /\ tasks[h][i].outcome = "broken"

====
